---- MODULE Spec2Model ----
(***************************************************************************)
(* Model of the memory-pressure remediation pipeline of                    *)
(* linux-activity-tracker: the memory probe (ProcParser), the pressure     *)
(* detector (RAMDetector), the process catalog (ProcessScanner), the       *)
(* termination executor (ProcessKiller), the process manager               *)
(* (ProcessManager) and the sampling loop (RAMMonitor).                    *)
(*                                                                         *)
(* Units: times are milliseconds; memory sizes and percentages are kept in *)
(* hundredths (the code rounds both to two decimals), so 9000 is 90.00 %   *)
(* and 15000 is 150.00 MB.  Strings that the code inspects character by    *)
(* character (command names, command lines, state codes) are sequences of  *)
(* one-character strings.                                                  *)
(***************************************************************************)
EXTENDS Integers, Sequences, FiniteSets, TLC

VARIABLES
  config,              \* the loaded configuration (utils/config), fixed after Init
  now,                 \* Date.now()
  \* ---- RAMDetector fields
  lastTriggerTime,
  consecutiveHighRAM,
  detectionHistory,
  cooldownMultiplier,
  isInCooldown,
  \* ---- RAMMonitor fields
  intervalId,          \* the setInterval timer: [set, due]
  isRunning,
  lastSnapshot,
  \* ---- ProcessKiller: the killProcess calls, in start order (finished ones stay)
  tasks,
  batch,               \* the killProcesses call: arguments, position in its loop, results
  lastQuery,           \* the detector query answered since the last detector operation
  \* ---- collaborator store (dbClient)
  events,              \* rows of the events table, by kind, in insertion order
  systemStats,         \* number of rows of the system_stats table
  killedProcesses,     \* rows of the killed_processes table, in insertion order
  \* ---- operating system
  procTable,           \* the current user's processes as ps lists them (by memory, descending)
  alive,               \* pids of procTable that still exist
  signalsSent,         \* every process.kill(pid, SIGTERM | SIGKILL) made, in order
  host,                \* the Node.js process and its machine: [exited, timers, meminfo]
  webhookPosts,        \* the fetch() calls to the n8n webhook, in order, with their fate
  \* ---- history variables (observations of the last call, not program state)
  lastCheck,           \* the last checkThreshold call: inputs, pre-state, result
  listed,              \* the last ProcessScanner listing call: arguments and results
  lastTick,            \* the last timer tick: what was in flight, what it did
  sinceTrigger         \* "none": no trigger yet; "clean": a trigger and no manual
                       \* reset since; "reset": a manual reset after the last trigger

detectorVars == <<lastTriggerTime, consecutiveHighRAM, detectionHistory,
                  cooldownMultiplier, isInCooldown>>

osVars == <<procTable, alive, signalsSent>>

monitorVars == <<intervalId, isRunning, lastSnapshot>>

storeVars == <<systemStats, killedProcesses>>

sysObs == <<lastTick>>

vars == <<config, now, lastTriggerTime, consecutiveHighRAM, detectionHistory,
          cooldownMultiplier, isInCooldown, intervalId, isRunning, lastSnapshot,
          tasks, batch, lastQuery, events, systemStats, killedProcesses, procTable, alive,
          signalsSent, host, webhookPosts, lastCheck, listed, lastTick, sinceTrigger>>

(***************************************************************************)
(* Bounds of the model.                                                    *)
(***************************************************************************)
\* over-threshold evaluations explored per behaviour of SpecDetector, beyond the
\* required consecutive count of the configuration
MaxExtraEvents == 4
\* clock range of SpecDetector, in cooldown bases
MaxCooldowns == 3
\* processes in a listing of SpecCatalog
MaxProcs == 3

\* killProcess calls explored in one run of the service
MaxKills == 2

\* of which started by POST /kill/:pid
MaxManualKills == 1

\* seconds of service time explored
MaxSeconds == 17

\* stop() calls explored in SpecLifecycle
MaxStops == 2

\* triggers followed in SpecPressure
MaxPressureTriggers == 2

\* /proc/meminfo reads explored in SpecMeminfo
MaxReads == 1

\* samples the monitor hands to the detector in SpecSampling
MaxSamples == 26

\* of which at or below the threshold
MaxRecoveries == 1

\* samples explored in SpecHistory: enough to fill the detection history
\* (100 events) and push events out of it
MaxHistorySamples == 103

(***************************************************************************)
(* Arithmetic helpers.                                                     *)
(***************************************************************************)
Min(a, b) == IF a < b THEN a ELSE b
Max(a, b) == IF a > b THEN a ELSE b

\* Math.round(n / d) for d > 0: the nearest integer, halves towards +infinity
Round(n, d) ==
  LET q == n \div d
      r == n % d
  IN IF 2 * r >= d THEN q + 1 ELSE q

RECURSIVE Pow2(_)
Pow2(n) == IF n <= 0 THEN 1 ELSE 2 * Pow2(n - 1)

(***************************************************************************)
(* Configuration.                                                          *)
(***************************************************************************)
MonitorIntervals == {1000, 5000, 10000}
CooldownBases == {2000, 120000}

DetectorConfigs ==
  [threshold : {90}, monitorInterval : MonitorIntervals, cooldown : CooldownBases]

(***************************************************************************)
(* MemoryProbe: ProcParser.getMemoryInfo.  data is the parsed /proc/meminfo *)
(* (kB); sizes come back in hundredths of a MB, percent in hundredths.     *)
(***************************************************************************)
toMB(kb) == Round(kb * 100, 1024)

\* a field that /proc/meminfo does not have
Missing == -1

\* data.key || 0
field(data, key) ==
  IF key \in DOMAIN data /\ data[key] # Missing THEN data[key] ELSE 0

getMemoryInfo(data) ==
  LET totalMB == toMB(field(data, "MemTotal"))
      freeMB == toMB(field(data, "MemFree"))
      availableMB == toMB(field(data, "MemAvailable"))
      usedMB == totalMB - availableMB
      percent == IF totalMB > 0 THEN Round(usedMB * 10000, totalMB) ELSE 0
  IN [total_mb |-> totalMB, free_mb |-> freeMB, available_mb |-> availableMB,
      used_mb |-> usedMB, percent |-> percent]

\* /proc/meminfo contents sampled by the model: 70.00 %, 90.00 % and 95.00 % used
MeminfoSamples ==
  { [MemTotal |-> 1024000, MemAvailable |-> a] : a \in {307200, 102400, 51200} }

(***************************************************************************)
(* SpecMeminfo: getMemoryInfo applied to every /proc/meminfo the model can *)
(* write: each of the three counters absent, 0, one page, or one of two    *)
(* larger sizes, in kB.                                                    *)
(***************************************************************************)
MeminfoValues == {Missing, 0, 4, 512000, 1024000}

MeminfoFiles ==
  [MemTotal : MeminfoValues, MemFree : MeminfoValues, MemAvailable : MeminfoValues]

(***************************************************************************)
(* RAMDetector.                                                            *)
(***************************************************************************)
\* Math.random(), in hundredths
RandomDraws == {0, 50, 99}

\* the comparison of checkThreshold; threshold is in percent
exceedsThreshold_strictLost(percent, threshold) == percent >= threshold * 100

exceedsThreshold(percent, threshold) == percent > threshold * 100

\* the cooldown without backoff
calculateCooldown_noBackoff(baseCooldown, rnd) ==
  Round(Min(baseCooldown, 30 * 60 * 1000) * (900 + 2 * rnd), 1000)

\* the cooldown with a jitter of +-50 %
calculateCooldown_wideJitter(baseCooldown, rnd) ==
  LET exponentialDelay == baseCooldown * Pow2(cooldownMultiplier - 1)
      cappedDelay == Min(exponentialDelay, 30 * 60 * 1000)
  IN Round(cappedDelay * (500 + 10 * rnd), 1000)

\* the cooldown returned as the instant at which it ends, which the caller
\* goes on comparing with the time elapsed since the trigger
calculateCooldown_asDeadline(baseCooldown, rnd) ==
  LET exponentialDelay == baseCooldown * Pow2(cooldownMultiplier - 1)
      cappedDelay == Min(exponentialDelay, 30 * 60 * 1000)
  IN now + Round(cappedDelay * (900 + 2 * rnd), 1000)

\* baseCooldown * 2^(multiplier - 1), capped at 30 minutes, with +-10 % jitter
calculateCooldown(baseCooldown, rnd) ==
  LET exponentialDelay == baseCooldown * Pow2(cooldownMultiplier - 1)
      cappedDelay == Min(exponentialDelay, 30 * 60 * 1000)
      \* jitter = cappedDelay * 0.1 * (random * 2 - 1)
  IN Round(cappedDelay * (900 + 2 * rnd), 1000)

\* getRequiredConsecutiveCount without the row for fast sampling
getRequiredConsecutiveCount_noFastRow ==
  IF config.monitorInterval < 7000 THEN 3
  ELSE 2

getRequiredConsecutiveCount ==
  IF config.monitorInterval < 3000 THEN 5
  ELSE IF config.monitorInterval < 7000 THEN 3
  ELSE 2

\* logDetectionEvent that records every event as a non-action
logDetectionEvent_neverAction(percent, threshold, count, actionTaken) ==
  LET event == [timestamp |-> now, ram_percent |-> percent, threshold |-> threshold,
                consecutive_count |-> count, action_taken |-> FALSE]
      pushed == Append(detectionHistory, event)
  IN IF Len(pushed) > 100 THEN Tail(pushed) ELSE pushed

\* logDetectionEvent that never drops the oldest event
logDetectionEvent_unbounded(percent, threshold, count, actionTaken) ==
  Append(detectionHistory,
         [timestamp |-> now, ram_percent |-> percent, threshold |-> threshold,
          consecutive_count |-> count, action_taken |-> actionTaken])

\* the history after pushing one event; only the last 100 are kept
logDetectionEvent(percent, threshold, count, actionTaken) ==
  LET event == [timestamp |-> now, ram_percent |-> percent, threshold |-> threshold,
                consecutive_count |-> count, action_taken |-> actionTaken]
      pushed == Append(detectionHistory, event)
  IN IF Len(pushed) > 100 THEN Tail(pushed) ELSE pushed

\* triggerAction that leaves the consecutive counter as it is
triggerAction_keepCounter(percent, threshold, count) ==
  [result |-> TRUE,
   lastTriggerTime |-> now,
   isInCooldown |-> TRUE,
   cooldownMultiplier |-> Min(8, cooldownMultiplier * 2),
   detectionHistory |-> logDetectionEvent(percent, threshold, count, TRUE),
   events |-> Append(events, "ram_action_triggered"),
   consecutiveHighRAM |-> count]

\* triggerAction that doubles the multiplier without a ceiling
triggerAction_noCeiling(percent, threshold, count) ==
  [result |-> TRUE,
   lastTriggerTime |-> now,
   isInCooldown |-> TRUE,
   cooldownMultiplier |-> cooldownMultiplier * 2,
   detectionHistory |-> logDetectionEvent(percent, threshold, count, TRUE),
   events |-> Append(events, "ram_action_triggered"),
   consecutiveHighRAM |-> 0]

\* the detector after triggerAction (count is the counter at the call)
triggerAction(percent, threshold, count) ==
  [result |-> TRUE,
   lastTriggerTime |-> now,
   isInCooldown |-> TRUE,
   cooldownMultiplier |-> Min(8, cooldownMultiplier * 2),
   detectionHistory |-> logDetectionEvent(percent, threshold, count, TRUE),
   events |-> Append(events, "ram_action_triggered"),
   consecutiveHighRAM |-> 0]

\* checkThreshold that starts a fresh run when a cooldown expires: the samples
\* counted during the cooldown are forgotten
checkThreshold_freshRunAfterCooldown(percent, rnd) ==
  LET threshold == config.threshold
      expired == isInCooldown /\ calculateCooldown(config.cooldown, rnd) <= now - lastTriggerTime
      count == IF expired THEN 1 ELSE consecutiveHighRAM + 1
      same == [result |-> FALSE,
               lastTriggerTime |-> lastTriggerTime,
               isInCooldown |-> isInCooldown,
               cooldownMultiplier |-> cooldownMultiplier,
               detectionHistory |-> detectionHistory,
               events |-> events,
               consecutiveHighRAM |-> consecutiveHighRAM]
  IN IF exceedsThreshold(percent, threshold)
     THEN IF isInCooldown /\ ~expired
          THEN [same EXCEPT !.consecutiveHighRAM = count,
                            !.detectionHistory =
                               logDetectionEvent(percent, threshold, count, FALSE)]
          ELSE IF count >= getRequiredConsecutiveCount
               THEN triggerAction(percent, threshold, count)
               ELSE [same EXCEPT !.consecutiveHighRAM = count,
                                 !.isInCooldown = FALSE,
                                 !.detectionHistory =
                                    logDetectionEvent(percent, threshold, count, FALSE)]
     ELSE IF consecutiveHighRAM > 0
          THEN [same EXCEPT !.consecutiveHighRAM = 0,
                            !.cooldownMultiplier =
                               IF cooldownMultiplier > 1
                               THEN Max(1, cooldownMultiplier \div 2)
                               ELSE cooldownMultiplier]
          ELSE same

\* checkThreshold(snapshot): the return value and the detector (and store) after
\* the call; rnd is the Math.random() draw of calculateCooldown
checkThreshold(percent, rnd) ==
  LET threshold == config.threshold
      baseCooldown == config.cooldown
      count == consecutiveHighRAM + 1
      timeSinceLast == now - lastTriggerTime
      currentCooldown == calculateCooldown(baseCooldown, rnd)
      remainingCooldown == currentCooldown - timeSinceLast
      same == [result |-> FALSE,
               lastTriggerTime |-> lastTriggerTime,
               isInCooldown |-> isInCooldown,
               cooldownMultiplier |-> cooldownMultiplier,
               detectionHistory |-> detectionHistory,
               events |-> events,
               consecutiveHighRAM |-> consecutiveHighRAM]
  IN IF exceedsThreshold(percent, threshold)
     THEN IF isInCooldown /\ remainingCooldown > 0
          THEN [same EXCEPT !.consecutiveHighRAM = count,
                            !.detectionHistory =
                               logDetectionEvent(percent, threshold, count, FALSE)]
          ELSE \* not in cooldown, or the cooldown has expired
               IF count >= getRequiredConsecutiveCount
               THEN triggerAction(percent, threshold, count)
               ELSE [same EXCEPT !.consecutiveHighRAM = count,
                                 !.isInCooldown = FALSE,
                                 !.detectionHistory =
                                    logDetectionEvent(percent, threshold, count, FALSE)]
     ELSE IF consecutiveHighRAM > 0
          THEN [same EXCEPT !.consecutiveHighRAM = 0,
                            !.cooldownMultiplier =
                               IF cooldownMultiplier > 1
                               THEN Max(1, cooldownMultiplier \div 2)
                               ELSE cooldownMultiplier]
          ELSE same

\* what a checkThreshold call leaves in the history variables
Observed(percent, rnd, r) ==
  LET over == exceedsThreshold(percent, config.threshold)
  IN [called |-> TRUE,
      percent |-> percent,
      result |-> r.result,
      pre |-> [consecutiveHighRAM |-> consecutiveHighRAM,
               isInCooldown |-> isInCooldown,
               cooldownMultiplier |-> cooldownMultiplier,
               sinceTrigger |-> sinceTrigger],
      timeSinceLast |-> now - lastTriggerTime,
      currentCooldown |-> IF over /\ isInCooldown
                          THEN calculateCooldown(config.cooldown, rnd) ELSE -1,
      streak |-> IF ~over THEN 0
                 ELSE IF ~isInCooldown /\ consecutiveHighRAM = 0 THEN 1
                 ELSE IF lastCheck.streak > 0 THEN lastCheck.streak + 1
                 ELSE 0,
      run |-> IF ~over THEN 0
              ELSE IF lastCheck.called /\ ~lastCheck.result THEN lastCheck.run + 1
              ELSE 1]

NoCheck ==
  [called |-> FALSE, percent |-> 0, result |-> FALSE,
   pre |-> [consecutiveHighRAM |-> 0, isInCooldown |-> FALSE,
            cooldownMultiplier |-> 1, sinceTrigger |-> "none"],
   timeSinceLast |-> 0, currentCooldown |-> -1, streak |-> 0, run |-> 0]

\* no detector query yet
NoStats ==
  [consecutiveHighRAM |-> 0, isInCooldown |-> FALSE, cooldownMultiplier |-> 0,
   lastTriggerTime |-> 0, timeSinceLastTrigger |-> -1, nextCooldownMs |-> -1,
   detectionHistory |-> [total |-> 0, lastHour |-> 0, actionsLastHour |-> 0]]

NoQuery == [op |-> "none", can |-> FALSE, stats |-> NoStats, limit |-> 0, history |-> <<>>]

\* no killProcesses call yet
NoBatch == [pc |-> "idle", processes |-> <<>>, maxKills |-> 0, toKill |-> <<>>,
            index |-> 0, results |-> <<>>, wake |-> 0]

\* no tick yet.  at: the instant of the tick; fault: what failed on it;
\* escaped: an exception left the timer callback; expected: on a tick with a
\* failing store write, what checkThreshold gives when the store works
NoTick ==
  [fired |-> FALSE, busy |-> FALSE, sampled |-> FALSE, evaluated |-> FALSE,
   started |-> FALSE, at |-> 0, fault |-> "none", escaped |-> FALSE,
   expected |-> [consecutiveHighRAM |-> 0, isInCooldown |-> FALSE,
                 cooldownMultiplier |-> 0, lastTriggerTime |-> 0, result |-> FALSE]]

\* the process at its start: running, no interval timer set, and a
\* /proc/meminfo nobody has read
IdleHost ==
  [exited |-> FALSE, timers |-> 0,
   meminfo |-> [MemTotal |-> Missing, MemFree |-> Missing, MemAvailable |-> Missing]]

\* the monitor, the executor and the store before anything has run
InitIdle ==
  /\ host = IdleHost
  /\ webhookPosts = <<>>
  /\ intervalId = [set |-> FALSE, due |-> 0]
  /\ isRunning = FALSE
  /\ lastSnapshot = [taken |-> FALSE, percent |-> 0, timestamp |-> 0]
  /\ tasks = <<>>
  /\ batch = NoBatch
  /\ lastQuery = NoQuery
  /\ systemStats = 0
  /\ killedProcesses = <<>>
  /\ signalsSent = <<>>
  /\ lastTick = NoTick

\* no ProcessScanner listing call yet
NoValidation == [valid |-> FALSE, reason |-> "none"]

NoListing ==
  [op |-> "none", all |-> <<>>, killable |-> <<>>, limit |-> 0, top |-> <<>>, estimate |-> 0,
   pid |-> 0, validation |-> NoValidation]

\* the state change of one checkThreshold call
\* the detector fields after a checkThreshold call that computed r
ApplyCheck(r) ==
  /\ lastTriggerTime' = r.lastTriggerTime
  /\ consecutiveHighRAM' = r.consecutiveHighRAM
  /\ detectionHistory' = r.detectionHistory
  /\ cooldownMultiplier' = r.cooldownMultiplier
  /\ isInCooldown' = r.isInCooldown
  /\ sinceTrigger' = IF r.result THEN "clean" ELSE sinceTrigger

CheckThresholdStep(percent, rnd) ==
  LET r == checkThreshold(percent, rnd)
  IN /\ ApplyCheck(r)
     /\ events' = r.events
     /\ lastCheck' = Observed(percent, rnd, r)

\* resetCooldown(): POST /detector/reset
\* resetCooldown that forgets to put the multiplier back to 1
resetCooldown_keepMultiplier ==
  /\ isInCooldown' = FALSE
  /\ cooldownMultiplier' = cooldownMultiplier
  /\ consecutiveHighRAM' = 0
  /\ sinceTrigger' = IF sinceTrigger = "none" THEN "none" ELSE "reset"
  /\ lastCheck' = NoCheck
  /\ UNCHANGED <<lastTriggerTime, detectionHistory, events>>

resetCooldown ==
  /\ isInCooldown' = FALSE
  /\ cooldownMultiplier' = 1
  /\ consecutiveHighRAM' = 0
  /\ sinceTrigger' = IF sinceTrigger = "none" THEN "none" ELSE "reset"
  /\ lastCheck' = NoCheck
  /\ UNCHANGED <<lastTriggerTime, detectionHistory, events>>

\* canTakeAction(): rnd is the Math.random() draw of calculateCooldown
canTakeAction(rnd) ==
  IF ~isInCooldown THEN TRUE
  ELSE now - lastTriggerTime >= calculateCooldown(config.cooldown, rnd)

(***************************************************************************)
(* SpecDetector: the detector driven directly, as test-detector.ts does:   *)
(* any snapshot at any time, manual resets in between.                     *)
(***************************************************************************)
InitDetectorFields ==
  /\ lastTriggerTime = 0
  /\ consecutiveHighRAM = 0
  /\ detectionHistory = <<>>
  /\ cooldownMultiplier = 1
  /\ isInCooldown = FALSE
  /\ lastCheck = NoCheck
  /\ sinceTrigger = "none"

InitDetector ==
  /\ config \in DetectorConfigs
  /\ now = 0
  /\ events = <<>>
  /\ InitDetectorFields
  /\ procTable = <<>>
  /\ alive = {}
  /\ listed = NoListing
  /\ InitIdle

Evaluate ==
  \E data \in MeminfoSamples, rnd \in RandomDraws :
    LET snapshot == getMemoryInfo(data)
    IN /\ Len(detectionHistory) < getRequiredConsecutiveCount + MaxExtraEvents
       /\ CheckThresholdStep(snapshot.percent, rnd)
       /\ UNCHANGED <<config, host, webhookPosts, lastQuery, batch, now, osVars, listed, monitorVars, tasks, storeVars, sysObs>>

ManualReset ==
  /\ resetCooldown
  /\ UNCHANGED <<config, host, webhookPosts, lastQuery, batch, now, osVars, listed, monitorVars, tasks, storeVars, sysObs>>

\* The clock moves on.  checkThreshold reads the clock only while isInCooldown
\* is set (the elapsed time since the trigger), so the model lets time pass only
\* then; it steps by one cooldown base, which puts the elapsed time below,
\* inside and above the jitter band of the cooldown.
Elapse ==
  /\ isInCooldown
  /\ now + config.cooldown <= MaxCooldowns * config.cooldown
  /\ now' = now + config.cooldown
  /\ UNCHANGED <<config, host, webhookPosts, lastQuery, batch, detectorVars, events, osVars, lastCheck, listed, sinceTrigger,
                 monitorVars, tasks, storeVars, sysObs>>

NextDetector == Evaluate \/ ManualReset \/ Elapse

SpecDetector == InitDetector /\ [][NextDetector]_vars

(***************************************************************************)
(* SpecBackoff: the detector under pressure that lasts.  Samples arrive    *)
(* while the cooldown runs and after it has run out, so that the detector  *)
(* fires again and again until the multiplier is at its ceiling.           *)
(***************************************************************************)
MaxTriggers == 4

InitBackoff ==
  /\ InitDetector
  /\ config.monitorInterval >= 5000

\* how many times triggerAction has run
Triggers == Len(SelectSeq(detectionHistory, LAMBDA e : e.action_taken))

\* the longest cooldown the jitter can give for the current multiplier
LongestCooldown ==
  (Min(config.cooldown * Pow2(cooldownMultiplier - 1), 30 * 60 * 1000) * 11) \div 10

\* a sample above the threshold
Pressure ==
  \E rnd \in RandomDraws :
    LET snapshot == getMemoryInfo([MemTotal |-> 1024000, MemAvailable |-> 51200])
    IN /\ Triggers < MaxTriggers
       /\ Len(detectionHistory) < getRequiredConsecutiveCount * MaxTriggers
       /\ CheckThresholdStep(snapshot.percent, rnd)
       /\ lastQuery' = NoQuery
       /\ UNCHANGED <<config, host, webhookPosts, batch, now, osVars, listed, monitorVars, tasks, storeVars,
                      sysObs>>

\* a sample below the threshold, once the multiplier has reached its ceiling
Relief ==
  LET snapshot == getMemoryInfo([MemTotal |-> 1024000, MemAvailable |-> 307200])
  IN /\ cooldownMultiplier = 8
     /\ CheckThresholdStep(snapshot.percent, 0)
     /\ lastQuery' = NoQuery
     /\ UNCHANGED <<config, host, webhookPosts, batch, now, osVars, listed, monitorVars, tasks, storeVars,
                    sysObs>>

\* the clock moves past the end of the cooldown
Outlast ==
  /\ isInCooldown
  /\ now < lastTriggerTime + LongestCooldown
  /\ now' = lastTriggerTime + LongestCooldown
  /\ lastQuery' = NoQuery
  /\ UNCHANGED <<config, host, webhookPosts, batch, detectorVars, events, osVars, lastCheck, listed, sinceTrigger,
                 monitorVars, tasks, storeVars, sysObs>>

NextBackoff == Pressure \/ Relief \/ Outlast

SpecBackoff == InitBackoff /\ [][NextBackoff]_vars

(***************************************************************************)
(* SpecDiagnostics: the detector under lasting pressure, asked in between  *)
(* whether it would act (canTakeAction), for its statistics (getStats) and *)
(* for its history (getHistory).                                           *)
(***************************************************************************)
\* getStats(); null is -1
getStats(rnd) ==
  LET hourAgo == now - 60 * 60 * 1000
      recentDetections == SelectSeq(detectionHistory, LAMBDA e : e.timestamp > hourAgo)
      actionsInLastHour == Len(SelectSeq(recentDetections, LAMBDA e : e.action_taken))
  IN [consecutiveHighRAM |-> consecutiveHighRAM,
      isInCooldown |-> isInCooldown,
      cooldownMultiplier |-> cooldownMultiplier,
      lastTriggerTime |-> lastTriggerTime,
      timeSinceLastTrigger |-> IF lastTriggerTime > 0 THEN now - lastTriggerTime ELSE -1,
      nextCooldownMs |-> IF isInCooldown THEN calculateCooldown(config.cooldown, rnd)
                         ELSE -1,
      detectionHistory |-> [total |-> Len(detectionHistory),
                            lastHour |-> Len(recentDetections),
                            actionsLastHour |-> actionsInLastHour]]

\* detectionHistory.slice(-limit); slice(-0) is slice(0), the whole array
getHistory(limit) ==
  IF limit = 0 \/ limit >= Len(detectionHistory) THEN detectionHistory
  ELSE SubSeq(detectionHistory, Len(detectionHistory) - limit + 1, Len(detectionHistory))

\* canTakeAction that clears the cooldown flag once the cooldown has run out
CanTakeAction_clearsFlag ==
  \E rnd \in RandomDraws :
    /\ lastQuery' = [NoQuery EXCEPT !.op = "canTakeAction", !.can = canTakeAction(rnd)]
    /\ isInCooldown' = (isInCooldown /\ ~canTakeAction(rnd))
    /\ UNCHANGED <<config, host, webhookPosts, batch, now, lastTriggerTime, consecutiveHighRAM,
                   detectionHistory, cooldownMultiplier, events, osVars, lastCheck, listed,
                   sinceTrigger, monitorVars, tasks, storeVars, sysObs>>

CanTakeAction ==
  \E rnd \in RandomDraws :
    /\ lastQuery' = [NoQuery EXCEPT !.op = "canTakeAction", !.can = canTakeAction(rnd)]
    /\ UNCHANGED <<config, host, webhookPosts, batch, now, detectorVars, events, osVars, lastCheck, listed,
                   sinceTrigger, monitorVars, tasks, storeVars, sysObs>>

\* GET /detector/stats
GetStats ==
  \E rnd \in RandomDraws :
    /\ lastQuery' = [NoQuery EXCEPT !.op = "getStats", !.stats = getStats(rnd)]
    /\ UNCHANGED <<config, host, webhookPosts, batch, now, detectorVars, events, osVars, lastCheck, listed,
                   sinceTrigger, monitorVars, tasks, storeVars, sysObs>>

MaxLimit == 1

\* getHistory(limit) called directly (GET /detector/history turns limit 0 into 50)
GetHistory ==
  \E limit \in 0..MaxLimit :
    /\ lastQuery' = [NoQuery EXCEPT !.op = "getHistory", !.limit = limit,
                                    !.history = getHistory(limit)]
    /\ UNCHANGED <<config, host, webhookPosts, batch, now, detectorVars, events, osVars, lastCheck, listed,
                   sinceTrigger, monitorVars, tasks, storeVars, sysObs>>

NextDiagnostics ==
  \/ Pressure
  \/ Relief
  \/ Outlast
  \/ CanTakeAction
  \/ GetStats
  \/ GetHistory

InitDiagnostics ==
  /\ InitDetector
  /\ config.monitorInterval = 10000

SpecDiagnostics == InitDiagnostics /\ [][NextDiagnostics]_vars

(***************************************************************************)
(* Strings: String.toLowerCase / toUpperCase / includes on sequences of    *)
(* one-character strings.                                                  *)
(***************************************************************************)
UpperChars == <<"A","B","C","D","E","F","G","H","I","J","K","L","M",
                "N","O","P","Q","R","S","T","U","V","W","X","Y","Z">>
LowerChars == <<"a","b","c","d","e","f","g","h","i","j","k","l","m",
                "n","o","p","q","r","s","t","u","v","w","x","y","z">>

\* the two case maps, letter by letter
LowerOf == [c \in { UpperChars[i] : i \in 1..26 } |->
              LowerChars[CHOOSE i \in 1..26 : UpperChars[i] = c]]
UpperOf == [c \in { LowerChars[i] : i \in 1..26 } |->
              UpperChars[CHOOSE i \in 1..26 : LowerChars[i] = c]]

toLowerCase(str) ==
  [i \in 1..Len(str) |-> IF str[i] \in DOMAIN LowerOf THEN LowerOf[str[i]] ELSE str[i]]
toUpperCase(str) ==
  [i \in 1..Len(str) |-> IF str[i] \in DOMAIN UpperOf THEN UpperOf[str[i]] ELSE str[i]]

includes(str, part) ==
  \E i \in 0..(Len(str) - Len(part)) : SubSeq(str, i + 1, i + Len(part)) = part

\* Array.prototype.slice(0, end) for end >= 0 (limits are counts)
slice(list, end) == SubSeq(list, 1, Min(end, Len(list)))

(***************************************************************************)
(* ProcessScanner.                                                         *)
(***************************************************************************)
currentUser == "user"
\* process.pid and process.ppid of the tracker
currentPid == 100
parentPid == 99

\* one line of ps output, already split into its columns
parsePsLine(pid, comm, args, rss, ppid, state) ==
  [pid |-> pid,
   user |-> currentUser,
   memory_mb |-> Round(rss * 100, 1024),
   command |-> comm,
   full_command |-> IF args = <<>> THEN comm ELSE args,
   ppid |-> ppid,
   state |-> state,
   rss_kb |-> rss]

N_systemd == <<"s","y","s","t","e","m","d">>
N_chrome == <<"c","h","r","o","m","e">>
N_vim == <<"v","i","m">>
N_bun == <<"b","u","n">>
N_npm == <<"n","p","m">>
N_node == <<"n","o","d","e">>
N_bash == <<"b","a","s","h">>
N_sh == <<"s","h">>
N_code == <<"c","o","d","e">>
N_java == <<"j","a","v","a">>
N_python == <<"p","y","t","h","o","n">>

\* the processes the model draws listings from; each shows one filter case
P_systemd == parsePsLine(500, N_systemd, <<>>, 512000, 1, <<"S","s">>)
P_chrome == parsePsLine(501, N_chrome, <<"/","o","p","t","/","C","h","r","o","m","e">>,
                        153600, 1, <<"S","l">>)
P_vim == parsePsLine(502, N_vim, <<>>, 51200, 600, <<"S","+">>)
P_self == parsePsLine(currentPid, N_bun, <<>>, 204800, parentPid, <<"S","l">>)
P_parent == parsePsLine(parentPid, N_npm, <<>>, 122880, 1, <<"S">>)
P_sibling == parsePsLine(503, N_node, <<>>, 307200, parentPid, <<"S","l">>)
P_bash == parsePsLine(600, N_bash, <<"-","b","a","s","h">>, 122880, 1, <<"S","s">>)
P_sh == parsePsLine(601, N_sh, <<>>, 0, 600, <<"S">>)
P_zombie == parsePsLine(504, N_java, <<>>, 0, 1, <<"Z">>)
P_stopped == parsePsLine(505, N_java, <<>>, 133120, 1, <<"T">>)
P_traced == parsePsLine(506, N_python, <<>>, 112640, 1, <<"t">>)
P_wrapped == parsePsLine(507, N_python,
                         <<"p","y"," ","s","y","s","t","e","m","d","-","m","o","n">>,
                         184320, 1, <<"R">>)
P_code == parsePsLine(508, N_code, <<>>, 102400, 1, <<"S","<">>)
P_java == parsePsLine(510, N_java, <<>>, 307200, 1, <<"S","l">>)

ProcPool == {P_systemd, P_chrome, P_vim, P_self, P_parent, P_sibling, P_bash, P_sh,
             P_zombie, P_stopped, P_traced, P_wrapped, P_code}

\* ps --sort -%mem: distinct processes, memory descending, ties in any order
Listings ==
  { l \in UNION { [1..n -> ProcPool] : n \in 0..MaxProcs } :
      /\ \A i, j \in 1..Len(l) : i < j => l[i].pid # l[j].pid
      /\ \A i \in 1..(Len(l) - 1) : l[i].rss_kb >= l[i + 1].rss_kb }

ProtectedLists == { <<>>, <<N_systemd>>, <<<<"C","H","R","O","M","E">>, N_vim>> }

CatalogConfigs ==
  [threshold : {90}, monitorInterval : {5000}, cooldown : {120000},
   protected : ProtectedLists, minMemoryMB : {0, 100}]

\* ps -u currentUser: the listed processes that still exist
getUserProcesses == SelectSeq(procTable, LAMBDA proc : proc.pid \in alive)

isProtected(proc, protectedList) ==
  LET commandLower == toLowerCase(proc.command)
      fullCommandLower == toLowerCase(proc.full_command)
  IN \E k \in 1..Len(protectedList) :
       LET protectedLower == toLowerCase(protectedList[k])
       IN \/ commandLower = protectedLower
          \/ includes(commandLower, protectedLower)
          \/ includes(fullCommandLower, protectedLower)

\* isCurrentProcess that forgets the parent
isCurrentProcess_selfOnly(proc) == proc.pid = currentPid

isCurrentProcess(proc) == proc.pid = currentPid \/ proc.pid = parentPid

shellPatterns == {N_bash, <<"z","s","h">>, <<"f","i","s","h">>, N_sh,
                  <<"d","a","s","h">>, <<"k","s","h">>, <<"t","c","s","h">>}

isShellProcess(proc) ==
  \/ proc.ppid = parentPid
  \/ toLowerCase(proc.command) \in shellPatterns

\* isCriticalState that knows zombies only
isCriticalState_zombieOnly(proc) == includes(toUpperCase(proc.state), <<"Z">>)

isCriticalState(proc) ==
  LET state == toUpperCase(proc.state)
  IN includes(state, <<"Z">>) \/ includes(state, <<"T">>) \/ includes(state, <<"X">>)

\* the memory floor applied with <= instead of <
belowMemoryFloor_inclusive(proc, minMemoryMB) == proc.memory_mb <= minMemoryMB * 100

\* filter 1; minMemoryMB is in MB
belowMemoryFloor(proc, minMemoryMB) == proc.memory_mb < minMemoryMB * 100

getKillableProcesses ==
  SelectSeq(getUserProcesses,
            LAMBDA proc : /\ ~belowMemoryFloor(proc, config.minMemoryMB)
                          /\ ~isProtected(proc, config.protected)
                          /\ ~isCurrentProcess(proc)
                          /\ ~isShellProcess(proc)
                          /\ ~isCriticalState(proc))

getTopMemoryConsumers(limit) == slice(getKillableProcesses, limit)

(***************************************************************************)
(* SpecCatalog: the catalog queries applied to every listing ps can return *)
(* (GET /processes/killable, GET /processes/top).                          *)
(***************************************************************************)
InitCatalog ==
  /\ config \in CatalogConfigs
  /\ now = 0
  /\ events = <<>>
  /\ InitDetectorFields
  /\ procTable \in Listings
  /\ alive = { procTable[i].pid : i \in 1..Len(procTable) }
  /\ listed = NoListing
  /\ InitIdle

ListKillable ==
  /\ listed' = [op |-> "killable", all |-> getUserProcesses,
                killable |-> getKillableProcesses, limit |-> 0, top |-> <<>>,
                estimate |-> 0, pid |-> 0, validation |-> NoValidation]
  /\ UNCHANGED <<config, host, webhookPosts, lastQuery, batch, now, detectorVars, events, osVars, lastCheck, sinceTrigger,
                 monitorVars, tasks, storeVars, sysObs>>

TopConsumers ==
  \E limit \in 0..MaxProcs :
    /\ listed' = [op |-> "top", all |-> getUserProcesses,
                  killable |-> getKillableProcesses, limit |-> limit,
                  top |-> getTopMemoryConsumers(limit), estimate |-> 0,
                  pid |-> 0, validation |-> NoValidation]
    /\ UNCHANGED <<config, host, webhookPosts, lastQuery, batch, now, detectorVars, events, osVars, lastCheck, sinceTrigger,
                 monitorVars, tasks, storeVars, sysObs>>

NextCatalog == ListKillable \/ TopConsumers

SpecCatalog == InitCatalog /\ [][NextCatalog]_vars

(***************************************************************************)
(* SpecDryRun: GET /kill/dry-run asked of the listings of a small pool.    *)
(***************************************************************************)
DryRunPool == {P_systemd, P_java, P_chrome, P_bash, P_code, P_zombie}

DryRunListings ==
  { l \in UNION { [1..n -> DryRunPool] : n \in 0..MaxProcs } :
      /\ \A i, j \in 1..Len(l) : i < j => l[i].pid # l[j].pid
      /\ \A i \in 1..(Len(l) - 1) : l[i].rss_kb >= l[i + 1].rss_kb }

InitDryRun ==
  /\ config \in CatalogConfigs
  /\ now = 0
  /\ events = <<>>
  /\ InitDetectorFields
  /\ procTable \in DryRunListings
  /\ alive = { procTable[i].pid : i \in 1..Len(procTable) }
  /\ listed = NoListing
  /\ InitIdle

RECURSIVE sumMemory(_)
\* toKill.reduce((sum, p) => sum + p.memory_mb, 0)
sumMemory(list) ==
  IF list = <<>> THEN 0 ELSE sumMemory(SubSeq(list, 1, Len(list) - 1)) + list[Len(list)].memory_mb

\* estimateMemoryRecovery that adds up the whole list
estimateMemoryRecovery_wholeList(processes, count) == sumMemory(processes)

estimateMemoryRecovery(processes, count) == sumMemory(slice(processes, count))

dryRun(processes, maxKills) ==
  [targets |-> slice(processes, maxKills),
   estimated_memory_mb |-> estimateMemoryRecovery(processes, maxKills)]

\* ProcessManager.getDryRun(maxKills), behind GET /kill/dry-run
getDryRun ==
  \E maxKills \in 0..MaxProcs :
    LET preview == dryRun(getKillableProcesses, maxKills)
    IN /\ listed' = [op |-> "dryRun", all |-> getUserProcesses,
                     killable |-> getKillableProcesses, limit |-> maxKills,
                     top |-> preview.targets, estimate |-> preview.estimated_memory_mb,
                     pid |-> 0, validation |-> NoValidation]
       /\ UNCHANGED <<config, host, webhookPosts, lastQuery, batch, now, detectorVars, events, osVars, lastCheck,
                      sinceTrigger, monitorVars, tasks, storeVars, sysObs>>

SpecDryRun == InitDryRun /\ [][getDryRun]_vars

(***************************************************************************)
(* ProcessKiller.  A killProcess call is a task: it sends SIGTERM, polls   *)
(* for the exit, escalates to SIGKILL and polls again.  A poll that finds  *)
(* the process still there changes nothing, so a waiting task is resumed   *)
(* either at the first poll after the exit or when the wait runs out.      *)
(***************************************************************************)
SIGTERM_WAIT_MS == 5000
SIGKILL_WAIT_MS == 2000
ExitPollMs == 100

\* pids the kernel refuses to let the tracker signal (kill(2) fails with EPERM)
RestrictedPids == {509}

N_postgres == <<"p","o","s","t","g","r","e","s">>
P_daemon == parsePsLine(509, N_postgres, <<>>, 409600, 1, <<"S","s">>)

\* process.kill(pid, signal) inside sendSignal: the errno, "OK" when delivered
processKill(pid, living) ==
  IF pid \notin living THEN "ESRCH"
  ELSE IF pid \in RestrictedPids THEN "EPERM"
  ELSE "OK"

\* sendSignal that takes every error for a failure
sendSignal_deliveredOnly(errno) == errno = "OK"

\* sendSignal's return value: true when delivered or when the process is gone
sendSignal(errno) == errno \in {"OK", "ESRCH"}

\* process.kill(pid, 0): EPERM means the process exists
processExists(pid, living) == pid \in living

NewKillResult(proc) ==
  [success |-> FALSE, pid |-> proc.pid, signal |-> "NONE",
   memory_freed_mb |-> proc.memory_mb, attempts |-> 0, error |-> "none"]

Sent(id, pid, signal, errno) ==
  [task |-> id, pid |-> pid, signal |-> signal, errno |-> errno]

\* killProcess from "Attempt 2" up to its first suspension or its return
sigkillStage(task, living) ==
  LET pid == task.proc.pid
      errno == processKill(pid, living)
      res == [task.result EXCEPT !.attempts = @ + 1]
      sent == <<Sent(task.id, pid, "SIGKILL", errno)>>
  IN IF sendSignal(errno)
     THEN IF ~processExists(pid, living)
          THEN [task |-> [task EXCEPT !.pc = "done", !.startTime = 0,
                                      !.result = [res EXCEPT !.success = TRUE,
                                                             !.signal = "SIGKILL"]],
                sent |-> sent]
          ELSE [task |-> [task EXCEPT !.pc = "waitKill", !.startTime = now,
                                      !.result = res],
                sent |-> sent]
     ELSE [task |-> [task EXCEPT !.pc = "done", !.startTime = 0,
                                 !.result = [res EXCEPT !.error = "Failed to send SIGKILL"]],
           sent |-> sent]

\* killProcess from its call up to its first suspension or its return
killProcess(id, origin, proc, living) ==
  LET errno == processKill(proc.pid, living)
      res == [NewKillResult(proc) EXCEPT !.attempts = 1]
      task == [id |-> id, origin |-> origin, proc |-> proc, pc |-> "start",
               startTime |-> 0, result |-> res]
      sent == <<Sent(id, proc.pid, "SIGTERM", errno)>>
  IN IF sendSignal(errno)
     THEN IF ~processExists(proc.pid, living)
          THEN [task |-> [task EXCEPT !.pc = "done", !.startTime = 0,
                                      !.result = [res EXCEPT !.success = TRUE,
                                                             !.signal = "SIGTERM"]],
                sent |-> sent]
          ELSE [task |-> [task EXCEPT !.pc = "waitTerm", !.startTime = now], sent |-> sent]
     ELSE LET k == sigkillStage(task, living)
          IN [task |-> k.task, sent |-> sent \o k.sent]

Waiting(task) == task.pc \in {"waitTerm", "waitKill"}

timeoutMs(task) == IF task.pc = "waitTerm" THEN SIGTERM_WAIT_MS ELSE SIGKILL_WAIT_MS

\* exitSeen that reports SIGTERM whichever signal was last sent
exitSeen_alwaysSigterm(task) ==
  [task EXCEPT !.pc = "done", !.startTime = 0,
               !.result = [task.result EXCEPT !.success = TRUE, !.signal = "SIGTERM"]]

\* waitForProcessExit resumed by a poll that finds the process gone
exitSeen(task) ==
  [task EXCEPT !.pc = "done", !.startTime = 0,
               !.result = [task.result EXCEPT
                             !.success = TRUE,
                             !.signal = IF task.pc = "waitTerm" THEN "SIGTERM" ELSE "SIGKILL"]]

\* waitExpired that sends SIGKILL again when the SIGKILL wait runs out
waitExpired_retry(task, living) == sigkillStage(task, living)

\* waitForProcessExit returning false: escalate after SIGTERM, give up after SIGKILL
waitExpired(task, living) ==
  IF task.pc = "waitTerm"
  THEN sigkillStage(task, living)
  ELSE [task |-> [task EXCEPT !.pc = "done", !.startTime = 0,
                              !.result = [task.result EXCEPT
                                            !.error = "Process did not exit after SIGKILL"]],
        sent |-> <<>>]

\* the first poll at or after the current instant
nextPoll(task) ==
  task.startTime + ExitPollMs * ((now - task.startTime + ExitPollMs - 1) \div ExitPollMs)

\* when a waiting task next does something
wakeTime(task) ==
  IF task.proc.pid \notin alive
  THEN Min(nextPoll(task), task.startTime + timeoutMs(task))
  ELSE task.startTime + timeoutMs(task)

(***************************************************************************)
(* ProcessManager and ProcessScanner.validateProcess.                      *)
(***************************************************************************)
killedRow(task) ==
  [pid |-> task.result.pid, name |-> task.proc.command,
   memory_mb |-> task.result.memory_freed_mb, signal |-> task.result.signal,
   reason |-> task.origin, success |-> task.result.success]

getProcessByPid(pid) ==
  SelectSeq(getUserProcesses, LAMBDA proc : proc.pid = pid)

\* validateProcess that also turns down a process below the memory floor
validateProcess_withFloor(pid) ==
  LET found == getProcessByPid(pid)
  IN IF found = <<>>
     THEN [valid |-> FALSE, reason |-> "not found"]
     ELSE IF found[1].user # currentUser
     THEN [valid |-> FALSE, reason |-> "different user"]
     ELSE IF isProtected(found[1], config.protected)
     THEN [valid |-> FALSE, reason |-> "protected"]
     ELSE IF isCurrentProcess(found[1]) \/ belowMemoryFloor(found[1], config.minMemoryMB)
     THEN [valid |-> FALSE, reason |-> "current process or parent"]
     ELSE [valid |-> TRUE, reason |-> "none"]

validateProcess(pid) ==
  LET found == getProcessByPid(pid)
  IN IF found = <<>>
     THEN [valid |-> FALSE, reason |-> "not found"]
     ELSE IF found[1].user # currentUser
     THEN [valid |-> FALSE, reason |-> "different user"]
     ELSE IF isProtected(found[1], config.protected)
     THEN [valid |-> FALSE, reason |-> "protected"]
     ELSE IF isCurrentProcess(found[1])
     THEN [valid |-> FALSE, reason |-> "current process or parent"]
     ELSE [valid |-> TRUE, reason |-> "none"]

(***************************************************************************)
(* SpecValidate: ProcessScanner.validateProcess asked about the pids of a  *)
(* small pool, a pid that is not listed included.                          *)
(***************************************************************************)
ValidatePool == {P_chrome, P_vim, P_bash, P_systemd, P_self, P_parent, P_zombie}

ValidateListings ==
  { l \in UNION { [1..n -> ValidatePool] : n \in 0..MaxProcs } :
      /\ \A i, j \in 1..Len(l) : i < j => l[i].pid # l[j].pid
      /\ \A i \in 1..(Len(l) - 1) : l[i].rss_kb >= l[i + 1].rss_kb }

\* the protected lists of the catalog, and one that names the tracker's parent
ValidateConfigs ==
  [threshold : {90}, monitorInterval : {5000}, cooldown : {120000},
   protected : ProtectedLists \cup {<<N_npm>>}, minMemoryMB : {100}]

InitValidate ==
  /\ config \in ValidateConfigs
  /\ now = 0
  /\ events = <<>>
  /\ InitDetectorFields
  /\ procTable \in ValidateListings
  /\ alive = { procTable[i].pid : i \in 1..Len(procTable) }
  /\ listed = NoListing
  /\ InitIdle

ValidatePids == { p.pid : p \in ValidatePool } \cup {999}

ValidateProcess ==
  \E pid \in ValidatePids :
    /\ listed' = [NoListing EXCEPT !.op = "validate", !.all = getUserProcesses,
                                   !.killable = getKillableProcesses, !.pid = pid,
                                   !.validation = validateProcess(pid)]
    /\ UNCHANGED <<config, host, webhookPosts, lastQuery, batch, now, detectorVars, events, osVars, lastCheck,
                   sinceTrigger, monitorVars, tasks, storeVars, sysObs>>

SpecValidate == InitValidate /\ [][ValidateProcess]_vars

\* what a finished killProcess leaves in the store: handleHighRAM writes a row
\* and an event, killProcessByPid a row
RECURSIVE sumFreed(_)
\* results.reduce((sum, r) => sum + (r.success ? r.memory_freed_mb : 0), 0)
sumFreed(results) ==
  IF results = <<>> THEN 0
  ELSE sumFreed(SubSeq(results, 1, Len(results) - 1))
         + (IF results[Len(results)].success THEN results[Len(results)].memory_freed_mb ELSE 0)

\* the body of the POST that handleHighRAMDetection sends once handleHighRAM
\* has returned results: Math.round of the memory the successful kills freed
ramSpike(results) ==
  [freedMemoryMb |-> Round(sumFreed(results), 100), fate |-> "pending"]

Settled(task, rows, evts) ==
  IF task.pc # "done" THEN [rows |-> rows, evts |-> evts, posts |-> <<>>]
  ELSE [rows |-> Append(rows, killedRow(task)),
        evts |-> IF task.origin = "auto" THEN Append(evts, "process_killed") ELSE evts,
        posts |-> IF task.origin = "auto" THEN <<ramSpike(<<task.result>>)>> ELSE <<>>]

\* a killProcess call on proc; gone: the process exited after ps listed it
LaunchKill(origin, proc, gone, evts, after) ==
  LET living == IF gone THEN alive \ {proc.pid} ELSE alive
      k == killProcess(Len(tasks) + 1, origin, proc, living)
      s == Settled(k.task, killedProcesses, evts)
  IN /\ Len(tasks) < MaxKills
     /\ origin = "manual" =>
          Len(SelectSeq(tasks, LAMBDA t : t.origin = "manual")) < MaxManualKills
     /\ alive' = living
     /\ tasks' = Append(tasks, k.task)
     /\ signalsSent' = signalsSent \o k.sent
     /\ killedProcesses' = s.rows
     /\ events' = s.evts \o after
     /\ webhookPosts' = webhookPosts \o s.posts

Active == { i \in 1..Len(tasks) : Waiting(tasks[i]) }

(***************************************************************************)
(* Spec: the running service.  The monitor is started at boot, its timer   *)
(* ticks every monitorInterval, POST /kill/:pid and POST /detector/reset   *)
(* arrive while it runs, signalled processes exit when they choose to, and *)
(* shutdown stops the monitor and ends the service.                        *)
(***************************************************************************)
SystemConfigs ==
  [threshold : {90}, monitorInterval : {5000, 10000}, cooldown : CooldownBases,
   enableAutoKill : BOOLEAN, protected : {<<N_systemd>>}, minMemoryMB : {100}]

SystemTables ==
  { <<P_daemon, P_self, P_chrome, P_bash, P_parent>>,
    <<P_systemd, P_self, P_chrome, P_bash, P_parent, P_code>> }

SystemSamples == { d \in MeminfoSamples : d.MemAvailable \in {307200, 51200} }

Horizon == MaxSeconds * 1000

\* the process has ended: shutdown ran, or an exception left the timer
\* callback with no uncaughtException handler installed
Halted == lastTick.escaped \/ host.exited

Serving == isRunning /\ ~Halted

Init ==
  /\ config \in SystemConfigs
  /\ now = 0
  /\ InitDetectorFields
  /\ events = <<>>
  /\ procTable \in SystemTables
  /\ alive = { procTable[i].pid : i \in 1..Len(procTable) }
  /\ listed = NoListing
  /\ InitIdle

\* what can go wrong on a tick: nothing; /proc/meminfo cannot be read; ps
\* fails; the store rejects the snapshot row; the store rejects the event row
\* of triggerAction
Faults == {"none", "probe", "ps", "stat", "event"}

StoreFaults == {"stat", "event"}

\* getKillableProcesses that falls back on the process table when ps fails
killableSeen_guess(fault) == getKillableProcesses

\* getKillableProcesses as handleHighRAM sees it: getUserProcesses catches a
\* failing ps and returns [], of which the filters keep nothing
killableSeen(fault) == IF fault = "ps" THEN <<>> ELSE getKillableProcesses

\* killHighestMemoryProcess that takes the last candidate
killHighestMemoryProcess_last(candidateProcesses) ==
  IF candidateProcesses = <<>> THEN <<>>
  ELSE <<candidateProcesses[Len(candidateProcesses)]>>

\* the target of killHighestMemoryProcess (none for an empty list)
killHighestMemoryProcess(candidateProcesses) ==
  IF candidateProcesses = <<>> THEN <<>> ELSE <<candidateProcesses[1]>>

\* handleHighRAM that does not look at enableAutoKill
handleHighRAM_ignoreSwitch(killable) ==
  IF killable = <<>>
  THEN [targets |-> <<>>, events |-> <<"ram_recovery_failed">>]
  ELSE [targets |-> killHighestMemoryProcess(killable), events |-> <<>>]

\* handleHighRAM up to its killProcess call: the processes it goes on to
\* terminate and the events it writes before that
handleHighRAM(killable) ==
  IF ~config.enableAutoKill
  THEN [targets |-> <<>>, events |-> <<>>]
  ELSE IF killable = <<>>
       THEN [targets |-> <<>>, events |-> <<"ram_recovery_failed">>]
       ELSE [targets |-> killHighestMemoryProcess(killable), events |-> <<>>]

\* the detector fields and the return value of a checkThreshold call
DetectorAfter(r) ==
  [consecutiveHighRAM |-> r.consecutiveHighRAM, isInCooldown |-> r.isInCooldown,
   cooldownMultiplier |-> r.cooldownMultiplier, lastTriggerTime |-> r.lastTriggerTime,
   result |-> r.result]

\* triggerAction cut short by insertEvent throwing: the assignments before
\* the store call are made, the counter is not reset and nothing is returned
triggerActionInterrupted(r) ==
  [r EXCEPT !.result = FALSE, !.events = events,
            !.consecutiveHighRAM = consecutiveHighRAM + 1]

\* the catch block of captureSnapshot: its insertEvent writes the error event,
\* or throws in its turn (rethrown) and the exception leaves the timer callback
catchBlock(rethrown, after) ==
  events' = IF rethrown THEN events ELSE Append(events, "ram_monitor_error") \o after

\* a failing probe takes for a reading of 0 %
probeFailed_zeroReading(rnd, after, observed) ==
  LET r == checkThreshold(0, rnd)
  IN /\ catchBlock(FALSE, after)
     /\ lastTick' = observed
     /\ ApplyCheck([r EXCEPT !.events = events])
     /\ lastSnapshot' = [taken |-> TRUE, percent |-> 0, timestamp |-> now]
     /\ UNCHANGED <<lastCheck, systemStats, tasks, alive, signalsSent, killedProcesses,
                    webhookPosts>>

\* captureSnapshot when getMemoryInfo throws: straight to the catch block
probeFailed(rnd, after, observed) ==
  /\ catchBlock(FALSE, after)
  /\ lastTick' = observed
  /\ UNCHANGED <<detectorVars, sinceTrigger, lastCheck, lastSnapshot, systemStats, tasks,
                 alive, signalsSent, killedProcesses, webhookPosts>>

\* captureSnapshot(): sample, store, evaluate, and on a trigger call
\* handleHighRAMDetection without awaiting it
captureSnapshot(data, rnd, gone, tick, after, fault, rethrown) ==
  LET snapshot == getMemoryInfo(data)
      r == checkThreshold(snapshot.percent, rnd)
      h == handleHighRAM(killableSeen(fault))
      launch == r.result /\ h.targets # <<>>
      observed == [NoTick EXCEPT !.fired = tick, !.at = now, !.fault = fault,
                                 !.busy = \E i \in Active : tasks[i].origin = "auto"]
  IN CASE fault = "probe" ->
            /\ ~gone /\ ~rethrown
            /\ probeFailed(rnd, after, observed)
       [] fault = "stat" ->
            \* insertSystemStat throws before lastSnapshot is assigned
            /\ ~gone
            /\ catchBlock(rethrown, after)
            /\ lastTick' = [observed EXCEPT !.escaped = rethrown,
                                            !.expected = DetectorAfter(r)]
            /\ UNCHANGED <<detectorVars, sinceTrigger, lastCheck, lastSnapshot, systemStats,
                           tasks, alive, signalsSent, killedProcesses, webhookPosts>>
       [] fault = "event" ->
            \* the insertEvent inside triggerAction throws
            /\ ~gone /\ r.result
            /\ systemStats' = systemStats + 1
            /\ lastSnapshot' = [taken |-> TRUE, percent |-> snapshot.percent,
                                timestamp |-> now]
            /\ ApplyCheck(triggerActionInterrupted(r))
            /\ catchBlock(rethrown, after)
            /\ lastTick' = [observed EXCEPT !.sampled = TRUE, !.evaluated = TRUE,
                                            !.escaped = rethrown,
                                            !.expected = DetectorAfter(r)]
            /\ UNCHANGED <<lastCheck, tasks, alive, signalsSent, killedProcesses,
                           webhookPosts>>
       [] OTHER ->
            /\ ~rethrown
            /\ fault = "ps" => (r.result /\ config.enableAutoKill)
            /\ systemStats' = systemStats + 1
            /\ lastSnapshot' = [taken |-> TRUE, percent |-> snapshot.percent,
                                timestamp |-> now]
            /\ ApplyCheck(r)
            /\ UNCHANGED lastCheck
            /\ lastTick' = [observed EXCEPT !.sampled = TRUE, !.evaluated = TRUE,
                                            !.started = launch]
            /\ IF launch
               THEN LaunchKill("auto", h.targets[1], gone, r.events, after)
               ELSE /\ ~gone
                    /\ events' = (IF r.result THEN r.events \o h.events ELSE r.events)
                                   \o after
                    \* handleHighRAM returned [] at once
                    /\ webhookPosts' = IF r.result
                                       THEN Append(webhookPosts, ramSpike(<<>>))
                                       ELSE webhookPosts
                    /\ UNCHANGED <<tasks, alive, signalsSent, killedProcesses>>

\* start() that does not look at isRunning
start_noGuard ==
  /\ ~Halted
  /\ \E data \in SystemSamples, rnd \in RandomDraws :
       captureSnapshot(data, rnd, FALSE, FALSE, <<"monitor_started">>, "none", FALSE)
  /\ intervalId' = [set |-> TRUE, due |-> now + config.monitorInterval]
  /\ isRunning' = TRUE
  /\ host' = [host EXCEPT !.timers = @ + 1]
  /\ UNCHANGED <<config, lastQuery, batch, now, procTable, listed>>

\* RAMMonitor.start(): a call made while the monitor is running returns at
\* once and changes nothing (a stuttering step)
start ==
  /\ ~isRunning
  /\ ~Halted
  /\ \E data \in SystemSamples, rnd \in RandomDraws :
       captureSnapshot(data, rnd, FALSE, FALSE, <<"monitor_started">>, "none", FALSE)
  /\ intervalId' = [set |-> TRUE, due |-> now + config.monitorInterval]
  /\ isRunning' = TRUE
  /\ host' = [host EXCEPT !.timers = @ + 1]
  /\ UNCHANGED <<config, lastQuery, batch, now, procTable, listed>>

\* the setInterval callback, with the faults it may meet
TickWith(faults) ==
  /\ intervalId.set
  /\ intervalId.due <= now
  /\ ~Halted
  /\ \E data \in SystemSamples, rnd \in RandomDraws, gone \in BOOLEAN,
        fault \in faults, rethrown \in BOOLEAN :
       captureSnapshot(data, rnd, gone, TRUE, <<>>, fault, rethrown)
  /\ intervalId' = [intervalId EXCEPT !.due = @ + config.monitorInterval]
  /\ UNCHANGED <<config, host, lastQuery, batch, now, isRunning, procTable, listed>>

\* the setInterval callback with /proc, ps and the store all working
Tick == TickWith({"none"})

\* killProcessByPid that goes ahead with any pid that ps lists
killProcessByPid_noValidation(pid) ==
  LET found == getProcessByPid(pid)
  IN /\ Serving
     /\ IF found # <<>>
        THEN \E gone \in BOOLEAN : LaunchKill("manual", found[1], gone, events, <<>>)
        ELSE UNCHANGED <<tasks, alive, signalsSent, killedProcesses, events, webhookPosts>>
     /\ UNCHANGED <<config, host, lastQuery, batch, now, detectorVars, monitorVars, procTable,
                    systemStats, lastCheck, lastTick, sinceTrigger>>

\* killProcessByPid that goes through the detector's gate: no manual kill
\* during a cooldown or with auto-kill switched off
killProcessByPid_gated(pid) ==
  LET validation == validateProcess(pid)
  IN /\ Serving
     /\ IF validation.valid /\ ~isInCooldown /\ config.enableAutoKill
        THEN \E gone \in BOOLEAN :
               LaunchKill("manual", getProcessByPid(pid)[1], gone, events, <<>>)
        ELSE UNCHANGED <<tasks, alive, signalsSent, killedProcesses, events, webhookPosts>>
     /\ UNCHANGED <<config, host, lastQuery, batch, now, detectorVars, monitorVars, procTable,
                    systemStats, lastCheck, lastTick, sinceTrigger>>

\* POST /kill/:pid -> ProcessManager.killProcessByPid
killProcessByPid(pid) ==
  LET validation == validateProcess(pid)
  IN /\ Serving
     /\ IF validation.valid
        THEN \E gone \in BOOLEAN :
               LaunchKill("manual", getProcessByPid(pid)[1], gone, events, <<>>)
        ELSE UNCHANGED <<tasks, alive, signalsSent, killedProcesses, events, webhookPosts>>
     /\ UNCHANGED <<config, host, lastQuery, batch, now, detectorVars, monitorVars, procTable,
                    systemStats, lastCheck, lastTick, sinceTrigger>>

\* POST /detector/reset
DetectorReset ==
  /\ Serving
  /\ sinceTrigger = "clean"
  /\ resetCooldown
  /\ UNCHANGED <<config, host, webhookPosts, lastQuery, batch, now, osVars, listed, monitorVars, tasks, storeVars, lastTick>>

\* a poll of waitForProcessExit finds the process gone
PollSeesExit(i) ==
  LET task == tasks[i]
      done == exitSeen(task)
      s == Settled(done, killedProcesses, events)
  IN /\ ~Halted
     /\ Waiting(task)
     /\ ~processExists(task.proc.pid, alive)
     /\ now - task.startTime < timeoutMs(task)
     /\ now = nextPoll(task)
     /\ tasks' = [tasks EXCEPT ![i] = done]
     /\ killedProcesses' = s.rows
     /\ events' = s.evts
     /\ webhookPosts' = webhookPosts \o s.posts
     /\ UNCHANGED <<config, host, lastQuery, batch, now, detectorVars, monitorVars, procTable, alive, signalsSent,
                    systemStats, lastCheck, listed, lastTick, sinceTrigger>>

\* waitForProcessExit runs out of time
WaitRunsOut(i) ==
  LET task == tasks[i]
      k == waitExpired(task, alive)
      s == Settled(k.task, killedProcesses, events)
  IN /\ ~Halted
     /\ Waiting(task)
     /\ now - task.startTime >= timeoutMs(task)
     /\ tasks' = [tasks EXCEPT ![i] = k.task]
     /\ signalsSent' = signalsSent \o k.sent
     /\ killedProcesses' = s.rows
     /\ events' = s.evts
     /\ webhookPosts' = webhookPosts \o s.posts
     /\ UNCHANGED <<config, host, lastQuery, batch, now, detectorVars, monitorVars, procTable, alive,
                    systemStats, lastCheck, listed, lastTick, sinceTrigger>>

\* a process that was delivered a signal exits
ProcessExits(pid) ==
  /\ ~Halted
  /\ pid \in alive
  /\ \E i \in 1..Len(signalsSent) : signalsSent[i].pid = pid /\ signalsSent[i].errno = "OK"
  /\ alive' = alive \ {pid}
  /\ UNCHANGED <<config, host, webhookPosts, lastQuery, batch, now, detectorVars, monitorVars, procTable, tasks, signalsSent,
                 events, storeVars, lastCheck, listed, lastTick, sinceTrigger>>

\* the next instant at which a timer or a poll is due
Deadlines ==
  (IF intervalId.set THEN {intervalId.due} ELSE {}) \cup { wakeTime(tasks[i]) : i \in Active }

TimePasses ==
  /\ Serving
  /\ \A d \in Deadlines : d > now
  /\ \E d \in Deadlines :
       /\ \A e \in Deadlines : d <= e
       /\ d <= Horizon
       /\ now' = d
  /\ UNCHANGED <<config, host, webhookPosts, lastQuery, batch, detectorVars, monitorVars, procTable, alive, tasks, signalsSent,
                 events, storeVars, lastCheck, listed, lastTick, sinceTrigger>>

\* RAMMonitor.stop(): a call made while the monitor is not running returns at
\* once and changes nothing (a stuttering step)
stop ==
  /\ isRunning
  /\ ~Halted
  /\ Len(SelectSeq(events, LAMBDA e : e = "monitor_stopped")) < MaxStops
  /\ intervalId' = [set |-> FALSE, due |-> 0]
  /\ host' = [host EXCEPT !.timers = IF intervalId.set THEN @ - 1 ELSE @]
  /\ isRunning' = FALSE
  /\ events' = Append(events, "monitor_stopped")
  /\ UNCHANGED <<config, webhookPosts, lastQuery, batch, now, detectorVars, lastSnapshot, procTable, alive, tasks,
                 signalsSent, storeVars, lastCheck, listed, lastTick, sinceTrigger>>

\* SIGINT / SIGTERM to the tracker: RAMMonitor.stop(), then the service exits
shutdown ==
  /\ Serving
  /\ intervalId' = [set |-> FALSE, due |-> 0]
  /\ isRunning' = FALSE
  /\ events' = Append(events, "monitor_stopped")
  /\ host' = [host EXCEPT !.timers = 0, !.exited = TRUE]
  /\ UNCHANGED <<config, webhookPosts, lastQuery, batch, now, detectorVars, lastSnapshot, procTable, alive, tasks,
                 signalsSent, storeVars, lastCheck, listed, lastTick, sinceTrigger>>

\* pids asked for: the tracker, its parent, a protected process, a shell, a
\* process the tracker may not signal, and a pid that does not exist
RequestPids == {currentPid, parentPid, P_systemd.pid, P_bash.pid, P_daemon.pid, 999}

KillRequest == \E pid \in RequestPids : killProcessByPid(pid) /\ UNCHANGED listed

PollStep == \E i \in 1..Len(tasks) : PollSeesExit(i)

TimeoutStep == \E i \in 1..Len(tasks) : WaitRunsOut(i)

ExitStep == \E pid \in alive : ProcessExits(pid)

Next ==
  \/ start
  \/ Tick
  \/ KillRequest
  \/ DetectorReset
  \/ PollStep
  \/ TimeoutStep
  \/ ExitStep
  \/ TimePasses
  \/ shutdown

Spec == Init /\ [][Next]_vars

(***************************************************************************)
(* SpecLifecycle: the monitor started and stopped through its own methods, *)
(* as the monitor's test script does, with its timer ticking in between.   *)
(***************************************************************************)
NextLifecycle ==
  start \/ stop \/ Tick \/ PollStep \/ TimeoutStep \/ ExitStep \/ TimePasses

SpecLifecycle == Init /\ [][NextLifecycle]_vars

(***************************************************************************)
(* SpecRequests: the running service with the answer validateProcess gave  *)
(* to the last POST /kill/:pid kept on record.                             *)
(***************************************************************************)
InitRequests ==
  /\ Init
  /\ config.monitorInterval = 10000
  /\ config.cooldown = 120000
  /\ P_systemd.pid \in alive

ObservedKillRequest ==
  \E pid \in RequestPids :
    /\ killProcessByPid(pid)
    /\ listed' = [NoListing EXCEPT !.op = "validate", !.pid = pid,
                                   !.validation = validateProcess(pid)]

NextRequests ==
  \/ start
  \/ Tick
  \/ ObservedKillRequest
  \/ PollStep
  \/ TimeoutStep
  \/ ExitStep
  \/ TimePasses

SpecRequests == InitRequests /\ [][NextRequests]_vars

(***************************************************************************)
(* SpecShutdown: the service from boot to SIGINT/SIGTERM.  The event loop  *)
(* keeps running timers and polls for as long as the process lives, so the *)
(* steps of a kill sequence and the passing of time are weakly fair.       *)
(***************************************************************************)
NextShutdown ==
  \/ start
  \/ Tick
  \/ PollStep
  \/ TimeoutStep
  \/ ExitStep
  \/ TimePasses
  \/ shutdown

SpecShutdown ==
  /\ Init
  /\ [][NextShutdown]_vars
  /\ WF_vars(start)
  /\ WF_vars(PollStep)
  /\ WF_vars(TimeoutStep)
  /\ WF_vars(TimePasses)

(***************************************************************************)
(* SpecFaults: the monitor on a machine where, on any tick, /proc/meminfo  *)
(* may be unreadable, ps may fail, or the store may reject a write.        *)
(***************************************************************************)
FaultyTick == TickWith(Faults)

NextFaults ==
  \/ start
  \/ FaultyTick
  \/ PollStep
  \/ TimeoutStep
  \/ ExitStep
  \/ TimePasses

SpecFaults == Init /\ [][NextFaults]_vars

(***************************************************************************)
(* SpecWebhook: the running service and the answers of the n8n webhook.    *)
(* The fetch of handleHighRAMDetection is awaited as the handler's last    *)
(* statement, so its fate arrives as a step of its own.                    *)
(***************************************************************************)
\* delivered: a 2xx answer; refused: fetch resolves with an error status;
\* failed: fetch rejects (no route, connection refused, timeout)
Fates == {"delivered", "refused", "failed"}

\* a webhook failure that surfaces as an uncaught error
WebhookSettles_raises ==
  \E i \in 1..Len(webhookPosts), fate \in Fates :
    /\ ~host.exited
    /\ webhookPosts[i].fate = "pending"
    /\ webhookPosts' = [webhookPosts EXCEPT ![i].fate = fate]
    /\ lastTick' = [lastTick EXCEPT !.escaped = fate = "failed"]
    /\ UNCHANGED <<config, host, lastQuery, batch, now, detectorVars, monitorVars, procTable,
                   alive, tasks, signalsSent, events, storeVars, lastCheck, listed,
                   sinceTrigger>>

\* the awaited fetch settles: a response of any status resolves it, a
\* rejection is swallowed by .catch(() => { }), and the handler returns
WebhookSettles ==
  \E i \in 1..Len(webhookPosts), fate \in Fates :
    /\ ~host.exited
    /\ webhookPosts[i].fate = "pending"
    /\ webhookPosts' = [webhookPosts EXCEPT ![i].fate = fate]
    /\ UNCHANGED <<config, host, lastQuery, batch, now, detectorVars, monitorVars, procTable,
                   alive, tasks, signalsSent, events, storeVars, lastCheck, listed, lastTick,
                   sinceTrigger>>

NextWebhook ==
  \/ start
  \/ Tick
  \/ PollStep
  \/ TimeoutStep
  \/ ExitStep
  \/ TimePasses
  \/ WebhookSettles

SpecWebhook == Init /\ [][NextWebhook]_vars

(***************************************************************************)
(* SpecSampling: the detector fed by the monitor's timer under the default *)
(* configuration, one sample every monitorInterval.  Kills are left out    *)
(* (enableAutoKill is false by default).                                   *)
(***************************************************************************)
InitSampling ==
  /\ InitDetector
  /\ config.monitorInterval = 5000
  /\ config.cooldown = 120000

Recoveries == systemStats - Len(detectionHistory)

\* a timer tick: the snapshot is stored and evaluated, and the clock moves on
\* to the next tick
Sample(data, rnd) ==
  LET snapshot == getMemoryInfo(data)
  IN /\ systemStats' = systemStats + 1
     /\ lastSnapshot' = [taken |-> TRUE, percent |-> snapshot.percent, timestamp |-> now]
     /\ CheckThresholdStep(snapshot.percent, rnd)
     /\ now' = now + config.monitorInterval
     /\ UNCHANGED <<config, host, webhookPosts, lastQuery, batch, intervalId, isRunning,
                    osVars, tasks, killedProcesses, listed, lastTick>>

HighSample == [MemTotal |-> 1024000, MemAvailable |-> 51200]
LowSample == [MemTotal |-> 1024000, MemAvailable |-> 307200]

SampleHigh ==
  \E rnd \in RandomDraws :
    /\ systemStats < MaxSamples
    /\ Sample(HighSample, rnd)

SampleLow ==
  /\ systemStats < MaxSamples
  /\ Recoveries < MaxRecoveries
  /\ Sample(LowSample, 0)

NextSampling == SampleHigh \/ SampleLow

SpecSampling == InitSampling /\ [][NextSampling]_vars

(***************************************************************************)
(* SpecPressure: the running monitor under sustained pressure.  Every tick *)
(* of its timer samples 95 %; setInterval keeps firing for as long as the  *)
(* monitor runs, so the tick is weakly fair.  The run is followed for      *)
(* MaxPressureTriggers triggers, each given the longest cooldown the code  *)
(* can compute plus a confirmation run to arrive.                          *)
(***************************************************************************)
TriggerEvents == Len(SelectSeq(events, LAMBDA e : e = "ram_action_triggered"))

\* the longest wait between two triggers: the capped delay with full jitter,
\* then required samples
LongestWait ==
  (30 * 60 * 1000 * 11) \div 10 + getRequiredConsecutiveCount * config.monitorInterval

PressureTick ==
  \E rnd \in RandomDraws :
    /\ TriggerEvents < MaxPressureTriggers
    /\ now <= MaxPressureTriggers * LongestWait
    /\ Sample(HighSample, rnd)

NextPressure == PressureTick

SpecPressure == InitSampling /\ [][NextPressure]_vars /\ WF_vars(PressureTick)

(***************************************************************************)
(* SpecHistory: the same schedule, long enough to fill the detection       *)
(* history: pressure until it is full, then pressure and recoveries in any *)
(* order.                                                                  *)
(***************************************************************************)
HistoryHigh ==
  \E rnd \in RandomDraws :
    /\ systemStats < MaxHistorySamples
    /\ Sample(HighSample, rnd)

HistoryLow ==
  /\ systemStats < MaxHistorySamples
  /\ Len(detectionHistory) = 100
  /\ Sample(LowSample, 50)

NextHistory == HistoryHigh \/ HistoryLow

SpecHistory == InitSampling /\ [][NextHistory]_vars

(***************************************************************************)
(* SpecMeminfo, continued: the kernel rewrites /proc/meminfo and the       *)
(* monitor reads it.                                                       *)
(***************************************************************************)
MeminfoChanges ==
  /\ \E file \in MeminfoFiles : host' = [host EXCEPT !.meminfo = file]
  /\ UNCHANGED <<config, webhookPosts, lastQuery, batch, now, detectorVars, monitorVars,
                 osVars, tasks, events, storeVars, lastCheck, listed, lastTick, sinceTrigger>>

\* the first statements of captureSnapshot, up to this.lastSnapshot = snapshot
ReadMeminfo ==
  LET snapshot == getMemoryInfo(host.meminfo)
  IN /\ systemStats < MaxReads
     /\ systemStats' = systemStats + 1
     /\ lastSnapshot' = [taken |-> TRUE, percent |-> snapshot.percent, timestamp |-> now]
     /\ UNCHANGED <<config, host, webhookPosts, lastQuery, batch, now, detectorVars,
                    intervalId, isRunning, osVars, tasks, events, killedProcesses, lastCheck,
                    listed, lastTick, sinceTrigger>>

NextMeminfo == MeminfoChanges \/ ReadMeminfo

InitMeminfo ==
  /\ InitDetector
  /\ config.monitorInterval = 5000
  /\ config.cooldown = 120000

SpecMeminfo == InitMeminfo /\ [][NextMeminfo]_vars

(***************************************************************************)
(* SpecBatch: ProcessKiller.killProcesses called once on a list of         *)
(* candidates.  The call kills one candidate at a time, pauses between     *)
(* kills and stops at the first failure.                                   *)
(***************************************************************************)
\* the pause between two kills (Bun.sleep(500))
KillPauseMs == 500

\* toKill that takes the whole list
toKill_all(processes, maxKills) == processes

\* const toKill = processes.slice(0, maxKills)
toKill(processes, maxKills) == slice(processes, maxKills)

\* the loop body after killProcess that carries on after a failure
afterKill_keepGoing(b, result) ==
  LET results == Append(b.results, result)
  IN IF Len(b.toKill) > 1
     THEN [b EXCEPT !.pc = "sleeping", !.results = results, !.wake = now + KillPauseMs]
     ELSE [b EXCEPT !.pc = "returned", !.results = results]

\* the loop body after killProcess has returned: push the result, break on a
\* failure, pause when the batch has more than one candidate
afterKill(b, result) ==
  LET results == Append(b.results, result)
  IN IF ~result.success
     THEN [b EXCEPT !.pc = "returned", !.results = results]
     ELSE IF Len(b.toKill) > 1
     THEN [b EXCEPT !.pc = "sleeping", !.results = results, !.wake = now + KillPauseMs]
     ELSE [b EXCEPT !.pc = "returned", !.results = results]

\* one iteration of the loop up to the first suspension of killProcess;
\* gone: the candidate exited after it was listed
nextKill(b, gone) ==
  LET proc == b.toKill[b.index + 1]
      living == IF gone THEN alive \ {proc.pid} ELSE alive
      k == killProcess(Len(tasks) + 1, "batch", proc, living)
      started == [b EXCEPT !.pc = "killing", !.index = @ + 1, !.wake = 0]
  IN /\ alive' = living
     /\ tasks' = Append(tasks, k.task)
     /\ signalsSent' = signalsSent \o k.sent
     /\ batch' = IF k.task.pc = "done" THEN afterKill(started, k.task.result) ELSE started

MaxBatch == 3

BatchPool == {P_chrome, P_code, P_daemon, P_wrapped}

\* candidate lists: distinct processes in any order
BatchTables ==
  { t \in UNION { [1..n -> BatchPool] : n \in 0..MaxBatch } :
      \A i, j \in 1..Len(t) : i # j => t[i] # t[j] }

InitBatch ==
  /\ config \in { c \in SystemConfigs : c.monitorInterval = 5000 /\ c.cooldown = 120000
                                         /\ c.enableAutoKill }
  /\ now = 0
  /\ InitDetectorFields
  /\ events = <<>>
  /\ procTable \in BatchTables
  /\ alive = { procTable[i].pid : i \in 1..Len(procTable) }
  /\ listed = NoListing
  /\ InitIdle

\* killProcesses(processes, reason, maxKills) up to its first suspension
killProcesses(processes, maxKills) ==
  LET called == [NoBatch EXCEPT !.processes = processes, !.maxKills = maxKills,
                                !.toKill = toKill(processes, maxKills)]
  IN /\ batch.pc = "idle"
     /\ IF called.toKill = <<>>
        THEN /\ batch' = [called EXCEPT !.pc = "returned"]
             /\ UNCHANGED <<alive, tasks, signalsSent>>
        ELSE \E gone \in BOOLEAN : nextKill(called, gone)
     /\ UNCHANGED <<config, host, webhookPosts, lastQuery, now, detectorVars, monitorVars, procTable, events, storeVars,
                    lastCheck, listed, lastTick, sinceTrigger>>

BatchCall == \E maxKills \in 0..MaxBatch : killProcesses(procTable, maxKills)

\* the pause is over: the next candidate, or the end of the loop
BatchResume ==
  /\ batch.pc = "sleeping"
  /\ now = batch.wake
  /\ IF batch.index < Len(batch.toKill)
     THEN \E gone \in BOOLEAN : nextKill(batch, gone)
     ELSE /\ batch' = [batch EXCEPT !.pc = "returned", !.wake = 0]
          /\ UNCHANGED <<alive, tasks, signalsSent>>
  /\ UNCHANGED <<config, host, webhookPosts, lastQuery, now, detectorVars, monitorVars, procTable, events, storeVars,
                 lastCheck, listed, lastTick, sinceTrigger>>

\* the awaited killProcess sees its target gone
BatchPoll ==
  LET task == tasks[Len(tasks)]
      done == exitSeen(task)
  IN /\ batch.pc = "killing"
     /\ Waiting(task)
     /\ ~processExists(task.proc.pid, alive)
     /\ now - task.startTime < timeoutMs(task)
     /\ now = nextPoll(task)
     /\ tasks' = [tasks EXCEPT ![Len(tasks)] = done]
     /\ batch' = afterKill(batch, done.result)
     /\ UNCHANGED <<config, host, webhookPosts, lastQuery, now, detectorVars, monitorVars, procTable, alive, signalsSent,
                    events, storeVars, lastCheck, listed, lastTick, sinceTrigger>>

\* the awaited killProcess runs out of time waiting
BatchTimeout ==
  LET task == tasks[Len(tasks)]
      k == waitExpired(task, alive)
  IN /\ batch.pc = "killing"
     /\ Waiting(task)
     /\ now - task.startTime >= timeoutMs(task)
     /\ tasks' = [tasks EXCEPT ![Len(tasks)] = k.task]
     /\ signalsSent' = signalsSent \o k.sent
     /\ batch' = IF k.task.pc = "done" THEN afterKill(batch, k.task.result) ELSE batch
     /\ UNCHANGED <<config, host, webhookPosts, lastQuery, now, detectorVars, monitorVars, procTable, alive,
                    events, storeVars, lastCheck, listed, lastTick, sinceTrigger>>

BatchDeadlines ==
  { wakeTime(tasks[i]) : i \in Active }
    \cup (IF batch.pc = "sleeping" THEN {batch.wake} ELSE {})

BatchTimePasses ==
  /\ \A d \in BatchDeadlines : d > now
  /\ \E d \in BatchDeadlines :
       /\ \A e \in BatchDeadlines : d <= e
       /\ now' = d
  /\ UNCHANGED <<config, host, webhookPosts, lastQuery, batch, detectorVars, monitorVars, procTable, alive, tasks,
                 signalsSent, events, storeVars, lastCheck, listed, lastTick, sinceTrigger>>

NextBatch ==
  \/ BatchCall
  \/ BatchResume
  \/ BatchPoll
  \/ BatchTimeout
  \/ ExitStep
  \/ BatchTimePasses

SpecBatch == InitBatch /\ [][NextBatch]_vars

(***************************************************************************)
(* Claims about the detector (checked under SpecDetector).                 *)
(***************************************************************************)
\* whether the last checkThreshold call saw a percent above the threshold
LastCheckOver == lastCheck.called /\ lastCheck.percent > config.threshold * 100

\* the smallest duration the jitter lets calculateCooldown return for a multiplier
CooldownFloor(multiplier) ==
  Round(Min(config.cooldown * Pow2(multiplier - 1), 30 * 60 * 1000) * 900, 1000)

\* C1: after every checkThreshold call with percent <= threshold (equality
\* included) the call has returned false and the consecutive counter is 0.
C1_NormalSampleReturnsFalseCounterZero ==
  (lastCheck.called /\ lastCheck.percent <= config.threshold * 100)
    => (lastCheck.result = FALSE /\ consecutiveHighRAM = 0)

\* a sample exactly at the threshold arrived while the counter was positive
C1_Witness ==
  /\ lastCheck.called
  /\ lastCheck.percent = config.threshold * 100
  /\ lastCheck.pre.consecutiveHighRAM > 0
  /\ consecutiveHighRAM = 0

\* C2: from a detector that is not in cooldown and has counter 0, feeding R
\* consecutive over-threshold snapshots (R from the monitor interval, 3 at
\* 5000 ms) returns false R-1 times, then true, and leaves the counter at 0.
C2_FiresOnRequiredConsecutive ==
  LET R == getRequiredConsecutiveCount
  IN /\ (config.monitorInterval = 5000 => R = 3)
     /\ (lastCheck.called /\ lastCheck.streak \in 1..(R - 1))
          => lastCheck.result = FALSE
     /\ (lastCheck.called /\ lastCheck.streak = R)
          => (lastCheck.result = TRUE /\ consecutiveHighRAM = 0)

\* the third of three over-threshold snapshots at 5000 ms has just fired
C2_Witness ==
  /\ config.monitorInterval = 5000
  /\ lastCheck.called
  /\ lastCheck.streak = 3
  /\ lastCheck.result = TRUE
  /\ consecutiveHighRAM = 0

\* C3 as stated: once a trigger has happened, every over-threshold call made
\* while the time since that trigger is below the cooldown duration (taken at
\* its smallest, 0.9 of the capped delay) returns false.
C3_Original ==
  (/\ LastCheckOver
   /\ lastCheck.pre.sinceTrigger # "none"
   /\ lastCheck.timeSinceLast < CooldownFloor(lastCheck.pre.cooldownMultiplier))
    => lastCheck.result = FALSE

\* C3 as amended: the same, as long as no manual reset (resetCooldown) has
\* happened since the trigger; and a call that finds the cooldown flag set and
\* the elapsed time below the duration it computes returns false.
C3_SuppressedDuringCooldown ==
  /\ (/\ LastCheckOver
      /\ lastCheck.pre.sinceTrigger = "clean"
      /\ lastCheck.timeSinceLast < CooldownFloor(lastCheck.pre.cooldownMultiplier))
       => lastCheck.result = FALSE
  /\ (/\ LastCheckOver
      /\ lastCheck.pre.isInCooldown
      /\ lastCheck.timeSinceLast < lastCheck.currentCooldown)
       => lastCheck.result = FALSE

\* an over-threshold call inside the cooldown whose counter had reached the
\* required count, and which was suppressed
C3_Witness ==
  /\ LastCheckOver
  /\ lastCheck.pre.sinceTrigger = "clean"
  /\ lastCheck.timeSinceLast < CooldownFloor(lastCheck.pre.cooldownMultiplier)
  /\ lastCheck.pre.consecutiveHighRAM + 1 >= getRequiredConsecutiveCount
  /\ lastCheck.result = FALSE

(***************************************************************************)
(* Claims about the process catalog (checked under SpecCatalog).           *)
(***************************************************************************)
\* case-insensitive containment
ContainsCI(str, part) == includes(toLowerCase(str), toLowerCase(part))

KnownShellNames ==
  { <<"b","a","s","h">>, <<"z","s","h">>, <<"f","i","s","h">>, <<"s","h">>,
    <<"d","a","s","h">>, <<"k","s","h">>, <<"t","c","s","h">> }

\* the five drop rules of the catalog, as the specification words them
DropMemory(p) == p.memory_mb < config.minMemoryMB * 100
DropProtected(p) ==
  \E k \in 1..Len(config.protected) :
    ContainsCI(p.command, config.protected[k]) \/ ContainsCI(p.full_command, config.protected[k])
DropSelfOrParent(p) == p.pid \in {currentPid, parentPid}
DropShell(p) == p.ppid = parentPid \/ toLowerCase(p.command) \in KnownShellNames
DropState(p) == \E c \in {"Z", "T", "X"} : includes(toUpperCase(p.state), <<c>>)
Dropped(p) ==
  DropMemory(p) \/ DropProtected(p) \/ DropSelfOrParent(p) \/ DropShell(p) \/ DropState(p)

\* C9: no element of the killable list is below minMemoryMB, matches a protected
\* entry (case-insensitively, in command name or full command line), is the
\* caller or its parent, has the caller's parent as parent, is named like a
\* shell, or has a state code containing Z, T or X.
C9_KillableExcludesUnsafe ==
  listed.op \in {"killable", "top"} =>
    \A i \in 1..Len(listed.killable) :
      LET p == listed.killable[i]
      IN /\ ~(p.memory_mb < config.minMemoryMB * 100)
         /\ \A k \in 1..Len(config.protected) :
              /\ ~ContainsCI(p.command, config.protected[k])
              /\ ~ContainsCI(p.full_command, config.protected[k])
         /\ p.pid # currentPid /\ p.pid # parentPid
         /\ p.ppid # parentPid
         /\ p.command \notin KnownShellNames
         /\ \A c \in {"Z", "T", "X"} : ~includes(p.state, <<c>>)

\* a listing with a process protected through its command line, a stopped
\* process and a killable one: only the killable one is returned
C9_Witness ==
  /\ listed.op = "killable"
  /\ listed.all = <<P_wrapped, P_chrome, P_stopped>>
  /\ config.protected = <<N_systemd>>
  /\ listed.killable = <<P_chrome>>

\* C10: the killable list is exactly the listing without the candidates that
\* trigger a drop rule, in the listing's order (systemd 500 MB, chrome 150 MB,
\* vim 50 MB with minMemoryMB = 100 and protected = [systemd] give [chrome]),
\* and topN(limit) is its prefix of length min(limit, length).
C10_KillableIsFilteredListingTopIsPrefix ==
  /\ listed.op \in {"killable", "top"} =>
       listed.killable = SelectSeq(listed.all, LAMBDA p : ~Dropped(p))
  /\ (/\ listed.op \in {"killable", "top"}
      /\ listed.all = <<P_systemd, P_chrome, P_vim>>
      /\ config.minMemoryMB = 100
      /\ config.protected = <<N_systemd>>)
       => listed.killable = <<P_chrome>>
  /\ listed.op = "top" =>
       listed.top = SubSeq(listed.killable, 1, Min(listed.limit, Len(listed.killable)))

\* the example listing, queried through topN with a limit of 2
C10_Witness ==
  /\ listed.op = "top"
  /\ listed.all = <<P_systemd, P_chrome, P_vim>>
  /\ config.minMemoryMB = 100
  /\ config.protected = <<N_systemd>>
  /\ listed.limit = 2
  /\ listed.top = <<P_chrome>>

(***************************************************************************)
(* Claims about the running service (checked under Spec).                  *)
(***************************************************************************)
\* the listing entry of a pid
entryOf(pid) == SelectSeq(procTable, LAMBDA proc : proc.pid = pid)[1]

SignalIndices == 1..Len(signalsSent)

\* C4: when SIGTERM is refused with "operation not permitted", the same
\* killProcess call sends no SIGKILL to that pid, and its outcome is a failure
\* that carries an error.
C4_NoEscalationAfterPermissionFailure ==
  \A i \in SignalIndices :
    (signalsSent[i].signal = "SIGTERM" /\ signalsSent[i].errno = "EPERM") =>
      /\ \A j \in SignalIndices :
           (signalsSent[j].task = signalsSent[i].task /\ signalsSent[j].pid = signalsSent[i].pid)
             => signalsSent[j].signal # "SIGKILL"
      /\ LET task == tasks[signalsSent[i].task]
         IN task.pc = "done" => (~task.result.success /\ task.result.error # "none")

\* C5: at every moment at most one termination sequence is in progress,
\* counting those started by the timer and those started by POST /kill/:pid.
C5_AtMostOneSequenceActive == Cardinality(Active) <= 1

\* C6: a timer tick that finds a remediation started by an earlier tick still
\* running is skipped: no snapshot, no detector call, no new remediation.
C6_BusyTickIsSkipped ==
  (lastTick.fired /\ lastTick.busy) =>
    (~lastTick.sampled /\ ~lastTick.evaluated /\ ~lastTick.started)

\* C7: no SIGTERM or SIGKILL is ever sent to a process whose command name is a
\* known shell name, on the automatic path or by killProcessByPid.
C7_NoSignalToShell ==
  \A i \in SignalIndices :
    toLowerCase(entryOf(signalsSent[i].pid).command) \notin KnownShellNames

\* C8: no SIGTERM or SIGKILL is ever sent to the tracker's own pid or to its
\* parent pid, on the automatic path or by killProcessByPid.
C8_NoSignalToSelfOrParent ==
  \A i \in SignalIndices : signalsSent[i].pid \notin {currentPid, parentPid}

\* both paths have sent signals while the tracker and its parent were listed,
\* the tracker above the automatic target
C8_Witness ==
  /\ {currentPid, parentPid} \subseteq alive
  /\ \E i \in 1..Len(tasks), j \in 1..Len(tasks) :
       /\ tasks[i].origin = "auto"
       /\ tasks[i].proc.memory_mb < P_self.memory_mb
       /\ tasks[j].origin = "manual"
  /\ \E i \in SignalIndices : signalsSent[i].errno = "OK"

\* the signals one killProcess call has sent, in order
signalsOf(k) == SelectSeq(signalsSent, LAMBDA s : s.task = k)

\* C11: a killProcess call whose SIGTERM reports "no such process" returns
\* success = true, signal = SIGTERM, attempts = 1 and sends no SIGKILL.
C11_VanishedTargetSucceedsOnSigterm ==
  \A i \in SignalIndices :
    (signalsSent[i].signal = "SIGTERM" /\ signalsSent[i].errno = "ESRCH") =>
      LET task == tasks[signalsSent[i].task]
      IN /\ task.pc = "done"
         /\ task.result.success
         /\ task.result.signal = "SIGTERM"
         /\ task.result.attempts = 1
         /\ signalsOf(task.id) = <<signalsSent[i]>>

\* a target that exited between the listing and the SIGTERM
C11_Witness ==
  \E i \in SignalIndices :
    /\ signalsSent[i].signal = "SIGTERM"
    /\ signalsSent[i].errno = "ESRCH"
    /\ tasks[signalsSent[i].task].pc = "done"

\* C12: a killProcess call sends at most one SIGTERM and at most one SIGKILL,
\* its first signal is SIGTERM, and a SIGKILL follows a SIGTERM attempt on the
\* same pid in the same call.
C12_SigtermFirstEachSignalOnce ==
  \A k \in 1..Len(tasks) :
    LET mine == signalsOf(k)
    IN /\ Len(mine) \in {1, 2}
       /\ mine[1].signal = "SIGTERM"
       /\ mine[1].pid = tasks[k].proc.pid
       /\ Len(mine) = 2 => (mine[2].signal = "SIGKILL" /\ mine[2].pid = mine[1].pid)

\* a call that escalated after a delivered SIGTERM and has returned
C12_Witness ==
  \E k \in 1..Len(tasks) :
    /\ tasks[k].pc = "done"
    /\ Len(signalsOf(k)) = 2
    /\ signalsOf(k)[1].errno = "OK"
    /\ signalsOf(k)[2].errno = "OK"

\* C13: every KillResult returned by killProcess has attempts 1 or 2; success
\* comes with (SIGTERM, 1) or (SIGKILL, 2); failure comes with signal NONE and
\* an error.
C13_KillOutcomeConsistent ==
  \A k \in 1..Len(tasks) :
    tasks[k].pc = "done" =>
      LET r == tasks[k].result
      IN /\ r.attempts \in {1, 2}
         /\ r.success => \/ (r.signal = "SIGTERM" /\ r.attempts = 1)
                         \/ (r.signal = "SIGKILL" /\ r.attempts = 2)
         /\ ~r.success => (r.signal = "NONE" /\ r.error # "none")

\* one call has returned a success by SIGKILL, another a failure
C13_Witness ==
  \E k \in 1..Len(tasks), j \in 1..Len(tasks) :
    /\ tasks[k].pc = "done" /\ tasks[k].result.success /\ tasks[k].result.signal = "SIGKILL"
    /\ tasks[j].pc = "done" /\ ~tasks[j].result.success

(***************************************************************************)
(* Claims about killProcesses (checked under SpecBatch).                   *)
(***************************************************************************)
\* the candidates that come after the first one whose outcome is a failure
AfterFirstFailure ==
  { j \in 1..Len(batch.processes) :
      \E k \in 1..Len(batch.results) : ~batch.results[k].success /\ k < j }

\* C14: killProcesses stops at the first failed outcome: the outcomes belong
\* to a prefix of the input, every outcome but the last is a success, no
\* signal goes to a candidate after the first failing one, and a call that
\* returned without a failure has an outcome for every candidate it took.
C14_BatchStopsAtFirstFailure ==
  /\ Len(batch.results) <= Len(batch.processes)
  /\ \A k \in 1..Len(batch.results) :
       /\ batch.results[k].pid = batch.processes[k].pid
       /\ k < Len(batch.results) => batch.results[k].success
  /\ \A j \in AfterFirstFailure :
       \A i \in 1..Len(signalsSent) : signalsSent[i].pid # batch.processes[j].pid
  /\ batch.pc = "returned" =>
       \/ Len(batch.results) = Len(batch.toKill)
       \/ /\ batch.results # <<>>
          /\ ~batch.results[Len(batch.results)].success

\* three candidates, all of them taken, the second one fails: two outcomes
C14_Witness ==
  /\ batch.pc = "returned"
  /\ Len(batch.processes) = 3
  /\ batch.maxKills = 3
  /\ Len(batch.results) = 2
  /\ batch.results[1].success
  /\ ~batch.results[2].success
  /\ processExists(batch.processes[3].pid, alive)

\* C15: killProcesses signals at most maxKills candidates, in input order,
\* one after the other: when the sequence of a candidate has started, every
\* earlier candidate's sequence is over and its outcome is in the results,
\* and the signals in the log are grouped by candidate in input order.
C15_BatchIsBoundedOrderedSequential ==
  /\ Len(tasks) <= Min(batch.maxKills, Len(batch.processes))
  /\ \A k \in 1..Len(tasks) :
       /\ tasks[k].proc = batch.processes[k]
       /\ k < Len(tasks) =>
            /\ tasks[k].pc = "done"
            /\ k <= Len(batch.results)
            /\ batch.results[k] = tasks[k].result
  /\ \A i \in 1..Len(signalsSent) :
       /\ signalsSent[i].task \in 1..Len(tasks)
       /\ signalsSent[i].pid = batch.processes[signalsSent[i].task].pid
       /\ \A j \in 1..Len(signalsSent) :
            i < j => signalsSent[i].task <= signalsSent[j].task

\* a list of three with maxKills 2: the first two were signalled and exited,
\* the third is untouched
C15_Witness ==
  /\ batch.pc = "returned"
  /\ Len(batch.processes) = 3
  /\ batch.maxKills = 2
  /\ Len(batch.results) = 2
  /\ batch.results[1].success
  /\ batch.results[2].success
  /\ \A k \in 1..2 :
       \E i \in 1..Len(signalsSent) :
         signalsSent[i].task = k /\ signalsSent[i].errno = "OK"
  /\ processExists(batch.processes[3].pid, alive)

(***************************************************************************)
(* Claims about the dry run (checked under SpecDryRun).                    *)
(***************************************************************************)
RECURSIVE MemoryOf(_, _)
\* the memory of the first n entries of a list, added up from the front
MemoryOf(list, n) ==
  IF n = 0 THEN 0 ELSE MemoryOf(list, n - 1) + list[n].memory_mb

\* C16: a dry run returns the first min(maxKills, length) candidates and the
\* sum of their memory_mb (800 MB for 500, 300, 100 MB with maxKills = 2); it
\* sends no signal and leaves the detector, the process list and the store
\* as they were.
C16_DryRunIsPrefixSumNoEffect ==
  listed.op = "dryRun" =>
    LET n == Min(listed.limit, Len(listed.killable))
    IN /\ Len(listed.top) = n
       /\ \A i \in 1..n : listed.top[i] = listed.killable[i]
       /\ listed.estimate = MemoryOf(listed.killable, n)
       /\ (/\ Len(listed.killable) = 3
           /\ listed.killable[1].memory_mb = 50000
           /\ listed.killable[2].memory_mb = 30000
           /\ listed.killable[3].memory_mb = 10000
           /\ listed.limit = 2) => listed.estimate = 80000
       /\ signalsSent = <<>>
       /\ tasks = <<>>
       /\ InitDetectorFields
       /\ events = <<>>
       /\ systemStats = 0
       /\ killedProcesses = <<>>
       /\ listed.all = getUserProcesses
       /\ listed.killable = getKillableProcesses
       /\ alive = { procTable[i].pid : i \in 1..Len(procTable) }

\* the dry run of 500, 300 and 100 MB candidates with maxKills = 2
C16_Witness ==
  /\ listed.op = "dryRun"
  /\ Len(listed.killable) = 3
  /\ listed.killable[1].memory_mb = 50000
  /\ listed.killable[2].memory_mb = 30000
  /\ listed.killable[3].memory_mb = 10000
  /\ listed.limit = 2
  /\ Len(listed.top) = 2
  /\ listed.estimate = 80000

(***************************************************************************)
(* Claims about the backoff (checked under SpecBackoff).                   *)
(***************************************************************************)
\* C17: every checkThreshold call that fires leaves the multiplier at twice
\* its value before the call, or at 8 when that is more than 8, and the
\* multiplier is at least 1 and at most 8 in every state.
C17_MultiplierDoublesUpToEight ==
  /\ cooldownMultiplier \in 1..8
  /\ (lastCheck.called /\ lastCheck.result) =>
       cooldownMultiplier = Min(8, 2 * lastCheck.pre.cooldownMultiplier)

\* the fourth trigger in a row: the multiplier was 8 and stays 8
C17_Witness ==
  /\ lastCheck.called
  /\ lastCheck.result
  /\ lastCheck.pre.cooldownMultiplier = 8
  /\ cooldownMultiplier = 8
  /\ Triggers = 4

\* C18: the cooldown duration checkThreshold compares the elapsed time with
\* is never more than 30 minutes.
C18_CooldownAtMostThirtyMinutes ==
  lastCheck.called => lastCheck.currentCooldown <= 30 * 60 * 1000

(***************************************************************************)
(* Claims about the wait after the first trigger and about recovery        *)
(* (checked under SpecDetector).                                           *)
(***************************************************************************)
\* C19: the first trigger of a fresh detector leaves the multiplier at 2.
\* With the multiplier at 2 and no manual reset since the trigger, an
\* over-threshold call less than 1.8 * base after the trigger returns false,
\* one at 2.2 * base or later whose counter reaches the required count
\* returns true, and every duration calculateCooldown can return lies between
\* 1.8 * base and 2.2 * base.
C19_SecondWaitInJitterBandOfTwiceBase ==
  /\ (lastCheck.called /\ lastCheck.result /\ lastCheck.pre.sinceTrigger = "none")
       => cooldownMultiplier = 2
  /\ (/\ LastCheckOver
      /\ lastCheck.pre.sinceTrigger = "clean"
      /\ lastCheck.pre.cooldownMultiplier = 2
      /\ 10 * lastCheck.timeSinceLast < 18 * config.cooldown)
       => lastCheck.result = FALSE
  /\ (/\ LastCheckOver
      /\ lastCheck.pre.cooldownMultiplier = 2
      /\ lastCheck.pre.consecutiveHighRAM + 1 >= getRequiredConsecutiveCount
      /\ 10 * lastCheck.timeSinceLast >= 22 * config.cooldown)
       => lastCheck.result = TRUE
  /\ cooldownMultiplier = 2 =>
       \A rnd \in RandomDraws :
         /\ 18 * config.cooldown <= 10 * calculateCooldown(config.cooldown, rnd)
         /\ 10 * calculateCooldown(config.cooldown, rnd) <= 22 * config.cooldown

\* the second trigger: the multiplier was 2, the cooldown flag was set, and
\* the call came 3 * base after the first trigger
C19_Witness ==
  /\ LastCheckOver
  /\ lastCheck.result
  /\ lastCheck.pre.sinceTrigger = "clean"
  /\ lastCheck.pre.cooldownMultiplier = 2
  /\ lastCheck.pre.isInCooldown
  /\ 10 * lastCheck.timeSinceLast >= 22 * config.cooldown
  /\ cooldownMultiplier = 4

\* C20: a checkThreshold call with percent <= threshold made while the
\* multiplier is above 1 halves the multiplier (not below 1), also directly
\* after a trigger; such a call never raises the multiplier.
C20_RecoveryHalvesMultiplier ==
  (lastCheck.called /\ ~LastCheckOver) =>
    /\ lastCheck.pre.cooldownMultiplier > 1 =>
         cooldownMultiplier = Max(1, lastCheck.pre.cooldownMultiplier \div 2)
    /\ cooldownMultiplier <= lastCheck.pre.cooldownMultiplier
    /\ cooldownMultiplier >= 1

\* C21: directly after resetCooldown, from whatever state it was called in,
\* the counter is 0, the multiplier is 1, the cooldown flag is off and
\* canTakeAction returns true.  (lastCheck is cleared by resetCooldown and
\* set by every checkThreshold call, and the clock stands still while the
\* cooldown flag is off.)
C21_ResetRestoresFreshDetector ==
  ~lastCheck.called =>
    /\ consecutiveHighRAM = 0
    /\ cooldownMultiplier = 1
    /\ isInCooldown = FALSE
    /\ \A rnd \in RandomDraws : canTakeAction(rnd)

\* a reset made inside the cooldown that followed the second trigger
C21_Witness ==
  /\ ~lastCheck.called
  /\ sinceTrigger = "reset"
  /\ Triggers = 2
  /\ now - lastTriggerTime < config.cooldown
  /\ cooldownMultiplier = 1

(***************************************************************************)
(* Claims about the read-only detector queries (checked under              *)
(* SpecDiagnostics).                                                       *)
(***************************************************************************)
\* C22: a step that answers canTakeAction, getStats or getHistory leaves
\* the counter, the cooldown flag, the multiplier, the last trigger time and
\* the detection history as they were.
C22_QueriesLeaveDetectorUnchanged ==
  [][(lastQuery' # lastQuery /\ lastQuery'.op # "none") =>
       /\ consecutiveHighRAM' = consecutiveHighRAM
       /\ isInCooldown' = isInCooldown
       /\ cooldownMultiplier' = cooldownMultiplier
       /\ lastTriggerTime' = lastTriggerTime
       /\ detectionHistory' = detectionHistory]_vars

\* canTakeAction answered true after the cooldown had run out, and the
\* cooldown flag is still set
C22_Witness ==
  /\ lastQuery.op = "canTakeAction"
  /\ lastQuery.can
  /\ isInCooldown
  /\ cooldownMultiplier = 4

(***************************************************************************)
(* Claims about validateProcess (checked under SpecValidate).              *)
(***************************************************************************)
\* the listed process validateProcess was asked about, if there is one
Asked == SelectSeq(listed.all, LAMBDA p : p.pid = listed.pid)

C24_RejectedRequestChangesNothing ==
  [][(listed' # listed /\ ~listed'.validation.valid) =>
       /\ signalsSent' = signalsSent
       /\ tasks' = tasks
       /\ killedProcesses' = killedProcesses
       /\ events' = events
       /\ alive' = alive
       /\ consecutiveHighRAM' = consecutiveHighRAM
       /\ isInCooldown' = isInCooldown
       /\ cooldownMultiplier' = cooldownMultiplier
       /\ lastTriggerTime' = lastTriggerTime
       /\ detectionHistory' = detectionHistory]_vars

\* a request for a protected process was turned down while the detector was
\* in its cooldown; nothing was ever sent to that process
C24_Witness ==
  /\ listed.op = "validate"
  /\ listed.pid = P_systemd.pid
  /\ listed.validation.reason = "protected"
  /\ isInCooldown
  /\ \A i \in 1..Len(signalsSent) : signalsSent[i].pid # P_systemd.pid

\* a step of a manual kill: the request itself, or a later step of the kill
\* sequence it started
ManualKillStep ==
  \/ listed' # listed /\ listed'.op = "validate"
  \/ \E i \in 1..Len(tasks) : tasks[i].origin = "manual" /\ tasks'[i] # tasks[i]

\* C38: a manual kill, whatever its outcome, leaves the detector's counter,
\* cooldown flag, multiplier and last-trigger time as they were, and a request
\* for a pid that passes validation starts its kill sequence whether or not
\* the detector is in cooldown and whether or not auto-kill is enabled.
C38_ManualKillBypassesDetector ==
  [][ManualKillStep =>
       /\ consecutiveHighRAM' = consecutiveHighRAM
       /\ isInCooldown' = isInCooldown
       /\ cooldownMultiplier' = cooldownMultiplier
       /\ lastTriggerTime' = lastTriggerTime
       /\ (listed' # listed /\ listed'.validation.valid) =>
            /\ Len(tasks') = Len(tasks) + 1
            /\ tasks'[Len(tasks')].origin = "manual"
            /\ tasks'[Len(tasks')].proc.pid = listed'.pid]_vars

\* with auto-kill off and the detector in the cooldown of a trigger, a manual
\* kill requested during that cooldown has sent SIGTERM, waited in vain and
\* escalated to SIGKILL; the detector is still in that cooldown
C38_Witness ==
  /\ ~config.enableAutoKill
  /\ isInCooldown
  /\ cooldownMultiplier = 2
  /\ lastTriggerTime > 0
  /\ listed.op = "validate" /\ listed.validation.valid
  /\ \E i \in 1..Len(tasks) :
       /\ tasks[i].origin = "manual"
       /\ tasks[i].proc.pid = listed.pid
       /\ tasks[i].pc = "waitKill"
       /\ tasks[i].startTime >= lastTriggerTime + SIGTERM_WAIT_MS
  /\ \E n \in 1..Len(signalsSent) :
       signalsSent[n].pid = listed.pid /\ signalsSent[n].signal = "SIGKILL"

(***************************************************************************)
(* Claims about the monitor's lifecycle (checked under SpecLifecycle).     *)
(***************************************************************************)
\* C40: whatever start() and stop() calls have been made, at most one
\* sampling timer exists, and the running flag is true exactly when one does;
\* intervalId holds that timer.
C40_AtMostOneTimer ==
  /\ host.timers <= 1
  /\ isRunning <=> host.timers = 1
  /\ isRunning <=> intervalId.set

\* the monitor has been started, stopped and started again, and the timer of
\* the second start has ticked
C40_Witness ==
  /\ isRunning
  /\ host.timers = 1
  /\ Len(SelectSeq(events, LAMBDA e : e = "monitor_started")) = 2
  /\ Len(SelectSeq(events, LAMBDA e : e = "monitor_stopped")) = 1
  /\ lastTick.fired
  /\ lastTick.at > 0
  /\ intervalId.due > now

(***************************************************************************)
(* Claims about the automatic remediation (checked under Spec).            *)
(***************************************************************************)
\* C25: with enableAutoKill false the monitoring loop sends no signal and
\* records no kill outcome, whatever the ticks bring, while every snapshot
\* it takes is still given to the detector.
C25_DisabledAutoKillNeverTerminates ==
  ~config.enableAutoKill =>
    /\ \A i \in 1..Len(tasks) : tasks[i].origin # "auto"
    /\ \A i \in 1..Len(signalsSent) : tasks[signalsSent[i].task].origin # "auto"
    /\ \A i \in 1..Len(killedProcesses) : killedProcesses[i].reason # "auto"
    /\ \A i \in 1..Len(events) : events[i] \notin {"process_killed", "ram_recovery_failed"}
    /\ lastSnapshot.taken => (lastTick.sampled /\ lastTick.evaluated /\ ~lastTick.started)

\* with auto-kill off the detector has fired on a timer tick and is in its
\* cooldown, killable processes are running and nothing was signalled
C25_Witness ==
  /\ ~config.enableAutoKill
  /\ lastTick.fired
  /\ isInCooldown
  /\ lastTriggerTime = lastTick.at
  /\ \E i \in 1..Len(events) : events[i] = "ram_action_triggered"
  /\ getKillableProcesses # <<>>
  /\ signalsSent = <<>>

\* the automatic terminate calls that have returned with the outcome row
AutoCallsDone(row) ==
  { i \in 1..Len(tasks) :
      tasks[i].origin = "auto" /\ tasks[i].pc = "done" /\ killedRow(tasks[i]) = row }

AutoRows(row) == { i \in 1..Len(killedProcesses) : killedProcesses[i] = row }

\* C26: a detector trigger starts at most one terminate call, on the first
\* entry of the killable list fetched on that tick, and every automatic
\* terminate call that returns leaves exactly one outcome row, whether it
\* succeeded or failed.
C26_OneTargetOneRecordPerTrigger ==
  /\ [][/\ Len(tasks') <= Len(tasks) + 1
        /\ \A i \in (Len(tasks) + 1)..Len(tasks') :
             tasks'[i].origin = "auto" =>
               /\ lastTick'.evaluated /\ lastTick'.at = now
               /\ isInCooldown' /\ lastTriggerTime' = now
               /\ getKillableProcesses # <<>>
               /\ tasks'[i].proc = getKillableProcesses[1]]_vars
  /\ [](\A i \in 1..Len(tasks) :
          tasks[i].origin = "auto" =>
            LET row == killedRow(tasks[i])
            IN Cardinality(AutoRows(row)) = Cardinality(AutoCallsDone(row)))
  /\ [](Cardinality({k \in 1..Len(killedProcesses) : killedProcesses[k].reason = "auto"})
          = Cardinality({i \in 1..Len(tasks) : tasks[i].origin = "auto"
                                                 /\ tasks[i].pc = "done"}))

\* a trigger's terminate call went for the biggest killable process, which
\* the kernel would not let the tracker signal: a failed row was written for
\* it and the smaller killable process was left alone
C26_Witness ==
  /\ \E i \in 1..Len(tasks) :
       /\ tasks[i].origin = "auto" /\ tasks[i].pc = "done"
       /\ tasks[i].proc = P_daemon
       /\ ~tasks[i].result.success
       /\ Cardinality(AutoRows(killedRow(tasks[i]))) >= 1
  /\ P_chrome.pid \in alive
  /\ \A i \in 1..Len(signalsSent) : signalsSent[i].pid # P_chrome.pid

(***************************************************************************)
(* Claims about stopping the monitor (checked under SpecShutdown).         *)
(***************************************************************************)
StopCalled == \E i \in 1..Len(events) : events[i] = "monitor_stopped"

\* C27: once stop() has been called no timer tick samples memory or reaches
\* the detector, and a kill sequence that was waiting for its target at that
\* moment still comes to its outcome, with its outcome row written.
C27_StopLetsSequenceFinish ==
  /\ [][StopCalled => /\ lastTick' = lastTick
                      /\ systemStats' = systemStats
                      /\ lastSnapshot' = lastSnapshot
                      /\ detectionHistory' = detectionHistory
                      /\ consecutiveHighRAM' = consecutiveHighRAM]_vars
  /\ (StopCalled /\ Active # {}) ~>
       (/\ Active = {}
        /\ Len(killedProcesses) = Cardinality({i \in 1..Len(tasks) : tasks[i].pc = "done"}))

(***************************************************************************)
(* Claims about ticks on which something fails (checked under SpecFaults). *)
(***************************************************************************)
\* C29: a tick on which the memory probe fails leaves the detector and the
\* last snapshot as they were and starts no termination; the timer stays
\* armed and the next tick on which nothing fails samples and evaluates as
\* usual.
C29_ProbeFailureSkipsCycle ==
  /\ [][(lastTick' # lastTick /\ lastTick'.fault = "probe") =>
          /\ UNCHANGED <<detectorVars, lastSnapshot, systemStats>>
          /\ UNCHANGED <<tasks, signalsSent, killedProcesses, alive>>
          /\ ~lastTick'.started]_vars
  /\ [](lastTick.fault = "probe" => (intervalId.set /\ isRunning /\ ~Halted))
  /\ [][(lastTick.fault = "probe" /\ lastTick' # lastTick /\ lastTick'.fault = "none") =>
          /\ lastTick'.sampled /\ lastTick'.evaluated
          /\ lastSnapshot' = [taken |-> TRUE, percent |-> lastSnapshot'.percent,
                              timestamp |-> now]
          /\ systemStats' = systemStats + 1
          /\ \E rnd \in RandomDraws :
               DetectorAfter(checkThreshold(lastSnapshot'.percent, rnd)) =
                 [consecutiveHighRAM |-> consecutiveHighRAM',
                  isInCooldown |-> isInCooldown',
                  cooldownMultiplier |-> cooldownMultiplier',
                  lastTriggerTime |-> lastTriggerTime',
                  result |-> lastTriggerTime' = now /\ isInCooldown']]_vars

\* the probe failed on the tick after two high samples: the count of 2 and
\* the snapshot of the tick before are still there, the failure is in the
\* event log and nothing was signalled
C29_Witness ==
  /\ lastTick.fired /\ lastTick.fault = "probe" /\ lastTick.at = now
  /\ consecutiveHighRAM = 2
  /\ lastSnapshot.timestamp = now - config.monitorInterval
  /\ events # <<>> /\ events[Len(events)] = "ram_monitor_error"
  /\ getKillableProcesses # <<>>
  /\ signalsSent = <<>>

\* C30: when ps fails on a tick that fires the detector, the killable list
\* comes back empty: the cycle sends no signal, starts no kill sequence and
\* writes no outcome row; it reports that there was nothing to kill.
C30_FailedEnumerationKillsNothing ==
  [][(lastTick' # lastTick /\ lastTick'.fault = "ps") =>
       /\ isInCooldown' /\ lastTriggerTime' = now
       /\ signalsSent' = signalsSent
       /\ tasks' = tasks
       /\ killedProcesses' = killedProcesses
       /\ alive' = alive
       /\ ~lastTick'.started
       /\ events'[Len(events')] = "ram_recovery_failed"]_vars

\* ps failed on the tick that fired the detector while killable processes
\* were running: none of them was signalled
C30_Witness ==
  /\ lastTick.fired /\ lastTick.fault = "ps" /\ lastTick.at = now
  /\ isInCooldown /\ lastTriggerTime = now
  /\ config.enableAutoKill
  /\ Len(getKillableProcesses) >= 2
  /\ signalsSent = <<>>
  /\ killedProcesses = <<>>

\* C28: after a tick on which a store write failed, no exception has left the
\* tick handler and the detector is where the same snapshot would have put it
\* with the store working; a fire has reset the counter to 0.
C28_StoreFailureKeepsDetectorOnCourse ==
  lastTick.fault \in StoreFaults =>
    /\ ~lastTick.escaped
    /\ consecutiveHighRAM = lastTick.expected.consecutiveHighRAM
    /\ isInCooldown = lastTick.expected.isInCooldown
    /\ cooldownMultiplier = lastTick.expected.cooldownMultiplier
    /\ lastTriggerTime = lastTick.expected.lastTriggerTime
    /\ lastTick.expected.result => consecutiveHighRAM = 0

(***************************************************************************)
(* Claims about the webhook notification (checked under SpecWebhook).      *)
(***************************************************************************)
\* C31: a webhook notification that is refused or fails changes no detector
\* field, neither the running flag, the timer nor the last snapshot, raises
\* nothing in the tick handler and leaves the recorded kill outcomes and
\* events as they are.
C31_WebhookFailureChangesNothing ==
  [][(\E i \in 1..Len(webhookPosts) :
        /\ Len(webhookPosts') = Len(webhookPosts)
        /\ webhookPosts[i].fate = "pending"
        /\ webhookPosts'[i].fate \in {"refused", "failed"}) =>
       /\ UNCHANGED detectorVars
       /\ UNCHANGED <<isRunning, intervalId, lastSnapshot>>
       /\ UNCHANGED <<killedProcesses, events, systemStats, tasks, signalsSent>>
       /\ ~lastTick'.escaped /\ ~Halted']_vars

\* the notification of a cycle that killed a process and freed memory has
\* failed; the monitor runs on, in cooldown, with the outcome row in place
C31_Witness ==
  /\ \E i \in 1..Len(webhookPosts) :
       webhookPosts[i].fate = "failed" /\ webhookPosts[i].freedMemoryMb > 0
  /\ isRunning /\ intervalId.set
  /\ isInCooldown
  /\ \E k \in 1..Len(killedProcesses) : killedProcesses[k].success

(***************************************************************************)
(* Claims about the memory probe (checked under SpecMeminfo).              *)
(***************************************************************************)
\* C32: whatever non-negative MemTotal and MemAvailable /proc/meminfo holds
\* (an absent field counting as 0), used is total minus available, percent
\* is used/total*100 and lies between 0 and 100, percent is 0 when total is
\* 0, and MemFree has no part in the percent.  Percent is in hundredths.
C32_PercentFromAvailableWithinRange ==
  LET info == getMemoryInfo(host.meminfo)
  IN /\ info.used_mb = info.total_mb - info.available_mb
     /\ info.total_mb > 0 => info.percent = Round(info.used_mb * 10000, info.total_mb)
     /\ field(host.meminfo, "MemTotal") = 0 => info.percent = 0
     /\ \A free \in MeminfoValues :
          getMemoryInfo([host.meminfo EXCEPT !.MemFree = free]).percent = info.percent
     /\ info.percent >= 0 /\ info.percent <= 10000
     /\ lastSnapshot.taken => (lastSnapshot.percent >= 0 /\ lastSnapshot.percent <= 10000)

(***************************************************************************)
(* Claims about the detector on the monitor's schedule (checked under      *)
(* SpecSampling).                                                          *)
(***************************************************************************)
\* C33: a trigger that follows an earlier trigger, with no manual reset in
\* between, comes at least one cooldown base after it, whatever samples
\* were evaluated in between.
C33_TriggersAtLeastBaseApart ==
  (lastCheck.called /\ lastCheck.result /\ lastCheck.pre.sinceTrigger = "clean") =>
    lastCheck.timeSinceLast >= config.cooldown

\* C37: an over-threshold sample evaluated during cooldown is counted even
\* when it is suppressed, and the first one evaluated once the cooldown has
\* elapsed leaves the cooldown and fires at once if the counter, with the
\* samples counted during the cooldown, has reached required; otherwise it
\* clears the flag and goes on counting.
C37_CooldownSamplesCount ==
  LET pre == lastCheck.pre
      suppressed == lastCheck.timeSinceLast < lastCheck.currentCooldown
  IN ( /\ lastCheck.called
       /\ exceedsThreshold(lastCheck.percent, config.threshold)
       /\ pre.isInCooldown ) =>
       IF suppressed
       THEN /\ ~lastCheck.result
            /\ isInCooldown
            /\ consecutiveHighRAM = pre.consecutiveHighRAM + 1
       ELSE IF pre.consecutiveHighRAM + 1 >= getRequiredConsecutiveCount
       THEN /\ lastCheck.result
            /\ consecutiveHighRAM = 0
            /\ lastTriggerTime = now - config.monitorInterval
       ELSE /\ ~lastCheck.result
            /\ ~isInCooldown
            /\ consecutiveHighRAM = pre.consecutiveHighRAM + 1

\* the first sample after the cooldown of the first trigger has run out
\* fires on a counter built up by the samples suppressed during the cooldown
C37_Witness ==
  /\ lastCheck.called /\ lastCheck.result
  /\ lastCheck.pre.isInCooldown
  /\ lastCheck.pre.consecutiveHighRAM > getRequiredConsecutiveCount
  /\ lastCheck.timeSinceLast >= lastCheck.currentCooldown
  /\ lastCheck.timeSinceLast - config.monitorInterval < lastCheck.currentCooldown
  /\ Triggers = 2
  /\ detectionHistory[Len(detectionHistory)].consecutive_count =
       lastCheck.pre.consecutiveHighRAM + 1

(***************************************************************************)
(* Claims about the detection history (checked under SpecHistory).         *)
(***************************************************************************)
\* the history after one more event whose fields agree with the call just
\* made: the old events in order behind it, the oldest dropped beyond 100
OneEventAppended ==
  LET n == Len(detectionHistory')
      kept == IF Len(detectionHistory) = 100 THEN Tail(detectionHistory)
              ELSE detectionHistory
  IN /\ n = Len(kept) + 1
     /\ n <= 100
     /\ SubSeq(detectionHistory', 1, n - 1) = kept
     /\ detectionHistory'[n].action_taken = lastCheck'.result
     /\ detectionHistory'[n].ram_percent = lastCheck'.percent
     /\ detectionHistory'[n].timestamp = now

\* C34 as stated: every evaluation, also one at or below the threshold,
\* appends exactly one event whose action flag is the call's return value,
\* and the history holds the last 100 events in call order.
C34_Original ==
  [][systemStats' # systemStats => OneEventAppended]_vars

\* C34: every evaluation of a percent above the threshold appends exactly one
\* event whose action flag is the call's return value; an evaluation at or
\* below the threshold appends none; the history holds the last 100 events in
\* call order.
C34_OneEventPerOverThresholdCall ==
  [][systemStats' # systemStats =>
       IF exceedsThreshold(lastCheck'.percent, config.threshold)
       THEN OneEventAppended
       ELSE detectionHistory' = detectionHistory /\ ~lastCheck'.result]_vars

\* the history is full, its oldest event has been dropped, it holds an action
\* and a non-action, and the last call was a recovery that left it alone
C34_Witness ==
  /\ systemStats > 101
  /\ Len(detectionHistory) = 100
  /\ detectionHistory[1].timestamp > 0
  /\ \E i \in 1..100 : detectionHistory[i].action_taken
  /\ lastCheck.called /\ ~exceedsThreshold(lastCheck.percent, config.threshold)
  /\ lastCheck.pre.consecutiveHighRAM > 0

(***************************************************************************)
(* Claims about the consecutive-breach confirmation (checked under         *)
(* SpecDetector).  lastCheck.run counts the over-threshold evaluations     *)
(* made in a row up to the last call, starting again after a recovery      *)
(* sample, a trigger or a manual reset.                                    *)
(***************************************************************************)
\* C35: evaluate returns true only when at least required consecutive
\* over-threshold evaluations, with no recovery sample, trigger or manual
\* reset between them, have been made up to and including that call; required
\* is 5 below 3000 ms, 3 below 7000 ms and 2 otherwise.
C35_TrueOnlyAfterRequiredRun ==
  LET required == IF config.monitorInterval < 3000 THEN 5
                  ELSE IF config.monitorInterval < 7000 THEN 3
                  ELSE 2
  IN (lastCheck.called /\ lastCheck.result) => lastCheck.run >= required

\* a trigger under fast sampling on the fifth over-threshold evaluation in a
\* row, the four before it recorded as non-actions with counts 1 to 4
C35_Witness ==
  /\ config.monitorInterval < 3000
  /\ lastCheck.called /\ lastCheck.result
  /\ lastCheck.run = 5
  /\ Len(detectionHistory) = 5
  /\ \A i \in 1..5 : detectionHistory[i].consecutive_count = i

\* C36: with threshold 90 and interval 5000 ms, after a normal sample and one
\* over-threshold sample that did not trigger, the third of three further
\* over-threshold samples returns true.  lastCheck.streak = 4 marks that
\* call: the fourth over-threshold evaluation in a row of a run that began
\* with the counter at 0 outside cooldown, which is how a normal sample
\* leaves a fresh detector; the four calls are the whole history and are made
\* back to back.
C36_ThirdFurtherSampleTriggers ==
  ( /\ config.threshold = 90
    /\ config.monitorInterval = 5000
    /\ lastCheck.called
    /\ lastCheck.streak = 4
    /\ Len(detectionHistory) = 4
    /\ now = 0 ) => lastCheck.result

(***************************************************************************)
(* Claims about sustained pressure (checked under SpecPressure).           *)
(***************************************************************************)
\* C39: while every sample is above the threshold and the timer keeps
\* ticking, each trigger is followed by another one: the detector leaves
\* every cooldown it enters.
C39_TriggersKeepComing ==
  \A k \in 0..(MaxPressureTriggers - 1) :
    (TriggerEvents = k) ~> (TriggerEvents = k + 1)

\* the second trigger under pressure: it ended the doubled cooldown of the
\* first one, every sample in between having been suppressed, and doubled
\* the multiplier again
C39_Witness ==
  /\ TriggerEvents = 2
  /\ lastCheck.called /\ lastCheck.result
  /\ lastCheck.pre.isInCooldown
  /\ lastCheck.pre.cooldownMultiplier = 2
  /\ lastCheck.timeSinceLast >= 2 * config.cooldown
  /\ cooldownMultiplier = 4
  /\ Len(detectionHistory) = systemStats

====
